---- MODULE Spec2Model ----
(***************************************************************************)
(* A model of the bifrost Hue-bridge emulator:                             *)
(*   - the service manager (crates/svc/src/manager.rs),                    *)
(*   - the resource store and its broadcast channel (src/resource.rs).     *)
(* Each part has its own specification over the shared variables.          *)
(***************************************************************************)
EXTENDS Integers, Sequences, FiniteSets, TLC

VARIABLES
    \* ---- service manager (struct ServiceManager) ----
    svcs,        \* BTreeMap<Uuid, ServiceInstance>: id -> [tx, name, state]
    names,       \* BTreeMap<String, Uuid>
    tasks,       \* JoinSet: id -> "running" | "finished" | "aborted"
    control_rx,  \* mpsc queue of SvmRequest: [client, kind, arg]
    service_rx,  \* mpsc queue of ServiceEvent
    shutdown,    \* the shutdown flag
    frames,      \* calls suspended in wait_for_multiple, innermost last: the
                 \* Shutdown handlers in progress, and under them a call made
                 \* by the owner of the manager
    mgr,         \* the task running run(): "running" | "done" | "error" | "panicked"
    reply,       \* client -> the reply to its last rpc ("none" while it waits)
    \* ---- resource store (struct Resources) ----
    res,         \* HashMap<Uuid, Resource>
    aux,         \* HashMap<Uuid, AuxData>
    last,        \* the last store call: its arguments, result and the events it sent
    snap,        \* the file state.yaml: absent, or the document last renamed onto it
    \* ---- the store behind its lock, and the broadcast channel ----
    lock,        \* Mutex<Resources>: "free" or the adapter that holds the guard
    apc,         \* adapter -> "idle" | "locked" | "mutated"
    apend,       \* adapter -> the events its call is about to send
    applied,     \* number of mutations applied to the store so far
    chan,        \* broadcast ring: the events some subscriber has still to read
    first,       \* position in the stream of the oldest event of chan
    subs,        \* subscriber -> 0 (not subscribed) or the position it reads next
    seen,        \* subscriber -> the last event it received
    \* ---- the Hue Zigbee codec and the entertainment stream ----
    hz,          \* the HueZigbeeUpdate handed to serialize
    wire,        \* the bytes handed to from_reader, and where they come from
    back,        \* what from_reader returned
    stream,      \* struct EntertainmentZigbeeStream, and whether a call panicked
    msg,         \* the ZigbeeMessage the last call of the stream returned
    sess,        \* the session: the counter it started at, its frame calls
    \* ---- the ZCL parsers, scene metadata, the retry policy ----
    zcl,         \* the bytes handed to a parser of zcl::hue and what it returned
    meta,        \* two SceneMetadata values, their difference, and its sum
    runner       \* a service under a retry policy: its retries and its state

svmVars == <<svcs, names, tasks, control_rx, service_rx, shutdown, frames, mgr,
             reply>>

storeVars == <<res, aux, last>>

concVars == <<lock, apc, apend, applied, chan, first, subs, seen>>

diskVars == <<snap>>

pureVars == <<zcl, meta, runner>>

wireVars == <<hz, wire, back, stream, msg, sess, pureVars>>

vars == <<svmVars, storeVars, concVars, diskVars, wireVars>>

\* what the actions of each part leave alone
SvmFrame == UNCHANGED <<storeVars, concVars, diskVars, wireVars>>

StoreFrame == UNCHANGED <<svmVars, wireVars, concVars>>

\* a call that changes the store is counted in applied
StoreCallFrame == UNCHANGED <<svmVars, wireVars, lock, apc, apend, chan, first, subs, seen>>

ConcFrame == UNCHANGED <<svmVars, wireVars, aux, snap>>

\* ------------------------------------------------------------------------
\* Bounds of the model
\* ------------------------------------------------------------------------
MaxSvcs == 2        \* services ever registered
MaxQueue == 1       \* messages in flight on the service-event channel

\* ------------------------------------------------------------------------
\* Helpers for maps with a dynamic key set
\* ------------------------------------------------------------------------
EmptyMap == [x \in {} |-> 0]

Put(f, k, v) == [x \in (DOMAIN f) \cup {k} |-> IF x = k THEN v ELSE f[x]]

Remove(f, k) == [x \in (DOMAIN f) \ {k} |-> f[x]]

Min(S) == CHOOSE x \in S : \A y \in S : x <= y

\* ========================================================================
\* Hue Zigbee update codec
\* ========================================================================
\* Option<T>: None, Some(v)
None == <<>>

Some(v) == <<v>>

IsSome(o) == o # <<>>

\* bitflags Flags: u16
ON_OFF == 1

BRIGHTNESS == 2

COLOR_MIREK == 4

COLOR_XY == 8

UNKNOWN_0 == 16

EFFECT_TYPE == 32

GRADIENT_PARAMS == 64

EFFECT_SPEED == 128

GRADIENT_COLORS == 256

\* Flags::contains, for a flag of one bit
contains(flags, flag) == (flags \div flag) % 2 = 1

\* Flags::insert
insert(flags, flag) == IF contains(flags, flag) THEN flags ELSE flags + flag

\* TakeFlag::take: whether the flag was set, and the flags without it
take(flags, flag) ==
    [taken |-> contains(flags, flag),
     flags |-> IF contains(flags, flag) THEN flags - flag ELSE flags]

\* enum EffectType and its byte (PrimitiveEnum_u8)
EffectByte ==
    [NoEffect |-> 0, Candle |-> 1, Fireplace |-> 2, Prism |-> 3, Sunrise |-> 9,
     Sparkle |-> 10, Opal |-> 11, Glisten |-> 12, Underwater |-> 14,
     Cosmos |-> 15, Sunbeam |-> 16, Enchant |-> 17]

EffectType == DOMAIN EffectByte

to_primitive(e) == EffectByte[e]

\* EffectType::from_primitive: None for a byte that no variant has
from_primitive(b) ==
    IF \E e \in EffectType : EffectByte[e] = b
    THEN Some(CHOOSE e \in EffectType : EffectByte[e] = b)
    ELSE None

\* An f64 coordinate in 0.0 ..= 1.0 is the number n / XYUnit, n in 0..XYUnit:
\* XYUnit is a multiple of 0xFFFF and of 0xFFF, so that every value the wire
\* carries is one of these numbers, and so is the middle between two of them.
XYUnit == 2 * 65535 * 273

\* XYUnit / 0xFFFF and XYUnit / 0xFFF
Step16 == XYUnit \div 65535

Step12 == XYUnit \div 4095

XY(x, y) == [x |-> x, y |-> y]

\* (v * f64::from(0xFFFF)) as u16: the cast drops the fraction
to_u16(v) == v \div Step16

\* f64::from(k) / f64::from(0xFFFF)
from_u16(k) == k * Step16

\* (v * f64::from(0xFFF)) as u16
to_u12(v) == v \div Step12

\* f64::from(k) / f64::from(0xFFF)
from_u12(k) == k * Step12

\* (variant: the high byte first)
BE16(v) == <<v \div 256, v % 256>>

\* write_u16::<LE>
LE16(v) == <<v % 256, v \div 256>>

\* read_u16::<LE>
read_LE16(b) == b[1] + 256 * b[2]

\* struct GradientUpdateHeader (lsb, msb0): nlights in the first four bits
\* of the first byte, resv0 in its last four, resv1, resv2
GradientUpdateHeader(nlights, resv0, resv1, resv2) ==
    [nlights |-> nlights, resv0 |-> resv0, resv1 |-> resv1, resv2 |-> resv2]

header_pack(h) == <<h.nlights * 16 + h.resv0, h.resv1>> \o LE16(h.resv2)

header_unpack(b) ==
    GradientUpdateHeader(b[1] \div 16, b[1] % 16, b[2], read_LE16(<<b[3], b[4]>>))

\* struct PackedXY12 (lsb): two fields of 12 bits in three bytes
xy12_pack(p) == <<p.x % 256, (p.x \div 256) + 16 * (p.y % 16), p.y \div 16>>

xy12_unpack(b) == [x |-> b[1] + 256 * (b[2] % 16), y |-> (b[2] \div 16) + 16 * b[3]]

GradientColors(header, points) == [header |-> header, points |-> points]

GradientParams(scale, offset) == [scale |-> scale, offset |-> offset]

\* HueZigbeeUpdate::default(): every field None
HueZigbeeUpdate ==
    [onoff |-> None, brightness |-> None, color_mirek |-> None, color_xy |-> None,
     unk0 |-> None, gradient_colors |-> None, gradient_params |-> None,
     effect_type |-> None, effect_speed |-> None]

RECURSIVE Concat(_)
Concat(ss) == IF ss = <<>> THEN <<>> ELSE Head(ss) \o Concat(Tail(ss))

\* the bytes serialize writes for the points of a gradient
RECURSIVE points_pack(_)
points_pack(points) ==
    IF points = <<>> THEN <<>>
    ELSE xy12_pack([x |-> to_u12(Head(points).x), y |-> to_u12(Head(points).y)])
           \o points_pack(Tail(points))

\* fn serialize, the flag word: opt_to_flag for each field
serialize_flags(x) ==
    LET opt_to_flag(flags, opt, flag) == IF IsSome(opt) THEN insert(flags, flag) ELSE flags
        f1 == opt_to_flag(0, x.onoff, ON_OFF)
        f2 == opt_to_flag(f1, x.brightness, BRIGHTNESS)
        f3 == opt_to_flag(f2, x.color_mirek, COLOR_MIREK)
        f4 == opt_to_flag(f3, x.color_xy, COLOR_XY)
        f5 == opt_to_flag(f4, x.unk0, UNKNOWN_0)
        f6 == opt_to_flag(f5, x.effect_type, EFFECT_TYPE)
        f7 == opt_to_flag(f6, x.effect_speed, EFFECT_SPEED)
        f8 == opt_to_flag(f7, x.gradient_colors, GRADIENT_COLORS)
    IN opt_to_flag(f8, x.gradient_params, GRADIENT_PARAMS)

\* one field of the output: its flag and the bytes written for it
Segment(flag, bytes) == [flag |-> flag, bytes |-> bytes]

\* (variant: the effect speed is written before the gradient colors)
serialize_fields_speed_first(x) ==
    <<Segment(ON_OFF, IF IsSome(x.onoff) THEN <<x.onoff[1]>> ELSE <<>>),
      Segment(BRIGHTNESS, IF IsSome(x.brightness) THEN <<x.brightness[1]>> ELSE <<>>),
      Segment(COLOR_MIREK, IF IsSome(x.color_mirek) THEN LE16(x.color_mirek[1]) ELSE <<>>),
      Segment(COLOR_XY, IF IsSome(x.color_xy)
                        THEN LE16(to_u16(x.color_xy[1].x)) \o LE16(to_u16(x.color_xy[1].y))
                        ELSE <<>>),
      Segment(UNKNOWN_0, IF IsSome(x.unk0) THEN LE16(x.unk0[1]) ELSE <<>>),
      Segment(EFFECT_TYPE, IF IsSome(x.effect_type)
                           THEN <<to_primitive(x.effect_type[1])>> ELSE <<>>),
      Segment(EFFECT_SPEED, IF IsSome(x.effect_speed) THEN <<x.effect_speed[1]>> ELSE <<>>),
      Segment(GRADIENT_COLORS,
              IF IsSome(x.gradient_colors)
              THEN LET g == x.gradient_colors[1] IN
                   <<4 + 3 * Len(g.points)>> \o header_pack(g.header)
                      \o points_pack(g.points)
              ELSE <<>>),
      Segment(GRADIENT_PARAMS, IF IsSome(x.gradient_params)
                               THEN <<x.gradient_params[1].scale,
                                      x.gradient_params[1].offset>>
                               ELSE <<>>)>>

\* fn serialize, after the flag word: the fields in the order of the if-lets
serialize_fields(x) ==
    <<Segment(ON_OFF, IF IsSome(x.onoff) THEN <<x.onoff[1]>> ELSE <<>>),
      Segment(BRIGHTNESS, IF IsSome(x.brightness) THEN <<x.brightness[1]>> ELSE <<>>),
      Segment(COLOR_MIREK, IF IsSome(x.color_mirek) THEN LE16(x.color_mirek[1]) ELSE <<>>),
      Segment(COLOR_XY, IF IsSome(x.color_xy)
                        THEN LE16(to_u16(x.color_xy[1].x)) \o LE16(to_u16(x.color_xy[1].y))
                        ELSE <<>>),
      Segment(UNKNOWN_0, IF IsSome(x.unk0) THEN LE16(x.unk0[1]) ELSE <<>>),
      Segment(EFFECT_TYPE, IF IsSome(x.effect_type)
                           THEN <<to_primitive(x.effect_type[1])>> ELSE <<>>),
      Segment(GRADIENT_COLORS,
              IF IsSome(x.gradient_colors)
              THEN LET g == x.gradient_colors[1] IN
                   <<4 + 3 * Len(g.points)>> \o header_pack(g.header)
                      \o points_pack(g.points)
              ELSE <<>>),
      Segment(EFFECT_SPEED, IF IsSome(x.effect_speed) THEN <<x.effect_speed[1]>> ELSE <<>>),
      Segment(GRADIENT_PARAMS, IF IsSome(x.gradient_params)
                               THEN <<x.gradient_params[1].scale,
                                      x.gradient_params[1].offset>>
                               ELSE <<>>)>>

\* fn serialize: the bytes written
serialize(x) ==
    LE16(serialize_flags(x))
       \o Concat([i \in 1..Len(serialize_fields(x)) |-> serialize_fields(x)[i].bytes])

\* where each present field lies in the output: its flag, offset and length
RECURSIVE Place(_, _)
Place(segs, at) ==
    IF segs = <<>> THEN <<>>
    ELSE IF Head(segs).bytes = <<>> THEN Place(Tail(segs), at)
    ELSE <<[flag |-> Head(segs).flag, at |-> at, len |-> Len(Head(segs).bytes)]>>
            \o Place(Tail(segs), at + Len(Head(segs).bytes))

WriteLayout(x) == Place(serialize_fields(x), 2)

\* the builds of the crate: debug assertions and overflow checks on or off
Builds == {"debug", "release"}

\* the reader and what from_reader has so far: the flags still to take, the
\* bytes still to read and their offset, the update, the error that ended it
\* and the bytes each field was read from
Reader(bytes) ==
    IF Len(bytes) < 2
    THEN [flags |-> 0, rest |-> <<>>, at |-> 0, hz |-> HueZigbeeUpdate,
          err |-> "IoError", layout |-> <<>>]
    ELSE [flags |-> read_LE16(bytes), rest |-> SubSeq(bytes, 3, Len(bytes)), at |-> 2,
          hz |-> HueZigbeeUpdate, err |-> "", layout |-> <<>>]

\* if flags.take(flag): the branch is entered
Takes(r, flag) == r.err = "" /\ take(r.flags, flag).taken

Taken(r, flag) == [r EXCEPT !.flags = take(@, flag).flags]

\* a read past the end of the input: the io error is returned with `?`
Short(r) == [r EXCEPT !.err = "IoError"]

\* n bytes read for the field of a flag
Eat(r, flag, n) ==
    [r EXCEPT !.rest = SubSeq(@, n + 1, Len(@)),
              !.at = @ + n,
              !.layout = Append(@, [flag |-> flag, at |-> r.at, len |-> n])]

read_onoff(r) ==
    IF ~Takes(r, ON_OFF) THEN r
    ELSE LET t == Taken(r, ON_OFF) IN
         IF Len(t.rest) < 1 THEN Short(t)
         ELSE [Eat(t, ON_OFF, 1) EXCEPT !.hz.onoff = Some(t.rest[1])]

read_brightness(r) ==
    IF ~Takes(r, BRIGHTNESS) THEN r
    ELSE LET t == Taken(r, BRIGHTNESS) IN
         IF Len(t.rest) < 1 THEN Short(t)
         ELSE [Eat(t, BRIGHTNESS, 1) EXCEPT !.hz.brightness = Some(t.rest[1])]

read_color_mirek(r) ==
    IF ~Takes(r, COLOR_MIREK) THEN r
    ELSE LET t == Taken(r, COLOR_MIREK) IN
         IF Len(t.rest) < 2 THEN Short(t)
         ELSE [Eat(t, COLOR_MIREK, 2) EXCEPT !.hz.color_mirek = Some(read_LE16(t.rest))]

read_color_xy(r) ==
    IF ~Takes(r, COLOR_XY) THEN r
    ELSE LET t == Taken(r, COLOR_XY) IN
         IF Len(t.rest) < 4 THEN Short(t)
         ELSE [Eat(t, COLOR_XY, 4) EXCEPT
                  !.hz.color_xy = Some(XY(from_u16(read_LE16(t.rest)),
                                          from_u16(read_LE16(SubSeq(t.rest, 3, 4)))))]

read_unk0(r) ==
    IF ~Takes(r, UNKNOWN_0) THEN r
    ELSE LET t == Taken(r, UNKNOWN_0) IN
         IF Len(t.rest) < 2 THEN Short(t)
         ELSE [Eat(t, UNKNOWN_0, 2) EXCEPT !.hz.unk0 = Some(read_LE16(t.rest))]

read_effect_type(r) ==
    IF ~Takes(r, EFFECT_TYPE) THEN r
    ELSE LET t == Taken(r, EFFECT_TYPE) IN
         IF Len(t.rest) < 1 THEN Short(t)
         ELSE IF from_primitive(t.rest[1]) = None
         THEN [Eat(t, EFFECT_TYPE, 1) EXCEPT !.err = "HueZigbeeDecodeError"]
         ELSE [Eat(t, EFFECT_TYPE, 1) EXCEPT !.hz.effect_type = from_primitive(t.rest[1])]

read_gradient_colors(r, build) ==
    IF ~Takes(r, GRADIENT_COLORS) THEN r
    ELSE LET t == Taken(r, GRADIENT_COLORS) IN
         IF Len(t.rest) < 5 THEN Short(t)
         ELSE LET len    == t.rest[1]
                  header == header_unpack(SubSeq(t.rest, 2, 5))
                  n      == header.nlights
                  point(i) == xy12_unpack(SubSeq(t.rest, 3 + 3 * i, 5 + 3 * i))
              IN IF build = "debug" /\ len # n * 3 + 4
                 THEN [t EXCEPT !.err = "panic"]
                 ELSE IF Len(t.rest) < 5 + 3 * n THEN Short(t)
                 ELSE [Eat(t, GRADIENT_COLORS, 5 + 3 * n) EXCEPT
                          !.hz.gradient_colors =
                              Some(GradientColors(header,
                                     [i \in 1..n |-> XY(from_u12(point(i).x),
                                                        from_u12(point(i).y))]))]

read_effect_speed(r) ==
    IF ~Takes(r, EFFECT_SPEED) THEN r
    ELSE LET t == Taken(r, EFFECT_SPEED) IN
         IF Len(t.rest) < 1 THEN Short(t)
         ELSE [Eat(t, EFFECT_SPEED, 1) EXCEPT !.hz.effect_speed = Some(t.rest[1])]

read_gradient_params(r) ==
    IF ~Takes(r, GRADIENT_PARAMS) THEN r
    ELSE LET t == Taken(r, GRADIENT_PARAMS) IN
         IF Len(t.rest) < 2 THEN Short(t)
         ELSE [Eat(t, GRADIENT_PARAMS, 2) EXCEPT
                  !.hz.gradient_params = Some(GradientParams(t.rest[1], t.rest[2]))]

\* what from_reader returns: Ok(hz), or an error and no update; bits is the
\* payload of HueZigbeeUnknownFlags; layout is what it read on the way
NoBack == [res |-> "none", hz |-> HueZigbeeUpdate, bits |-> 0, layout |-> <<>>]

\* (variant: the flags left over are ignored)
finish_lenient(r) ==
    IF r.err # "" THEN [NoBack EXCEPT !.res = r.err, !.layout = r.layout]
    ELSE [NoBack EXCEPT !.res = "Ok", !.hz = r.hz, !.layout = r.layout]

\* fn from_reader, its end: the flags left over
finish(r) ==
    IF r.err # "" THEN [NoBack EXCEPT !.res = r.err, !.layout = r.layout]
    ELSE IF r.flags = 0 THEN [NoBack EXCEPT !.res = "Ok", !.hz = r.hz, !.layout = r.layout]
    ELSE [NoBack EXCEPT !.res = "HueZigbeeUnknownFlags", !.bits = r.flags,
                        !.layout = r.layout]

\* (variant: the effect speed is read before the gradient colors)
from_reader_speed_first(bytes, build) ==
    finish(read_gradient_params(read_gradient_colors(read_effect_speed(
       read_effect_type(read_unk0(read_color_xy(read_color_mirek(
          read_brightness(read_onoff(Reader(bytes)))))))), build)))

\* fn from_reader
from_reader(bytes, build) ==
    finish(read_gradient_params(read_effect_speed(read_gradient_colors(
       read_effect_type(read_unk0(read_color_xy(read_color_mirek(
          read_brightness(read_onoff(Reader(bytes))))))), build))))

\* the bytes handed to from_reader; from is "serialize" or "network"
NoWire == [from |-> "none", bytes |-> <<>>]

\* ========================================================================
\* Entertainment stream
\* ========================================================================
\* a u32 as its two halves of 16 bits
U32(hi, lo) == [hi |-> hi, lo |-> lo]

U32_MAX == U32(65535, 65535)

\* the number u + k, which is no u32 when hi gets past 16 bits
Plus(u, k) == U32(u.hi + (u.lo + k) \div 65536, (u.lo + k) % 65536)

\* a < b
Less(a, b) == a.hi < b.hi \/ (a.hi = b.hi /\ a.lo < b.lo)

LE32(u) == LE16(u.lo) \o LE16(u.hi)

read_LE32(b) == U32(read_LE16(SubSeq(b, 3, 4)), read_LE16(b))

DEFAULT_SMOOTHING == 1024

CMD_SEGMENT_MAP == 7

CMD_RESET == 3

CMD_FRAME == 1

\* ZigbeeMessage::new, without the cluster and ddr that never vary
ZigbeeMessage(command, data) == [command |-> command, data |-> data]

NoMsg == ZigbeeMessage(0, <<>>)

\* struct HueEntFrameLightRecord
HueEntFrameLightRecord(addr, brightness, raw) ==
    [addr |-> addr, brightness |-> brightness, raw |-> raw]

\* HueEntSegmentConfig::new(map).pack(): the ids of the mapping
HueEntSegmentConfig_pack(map) == Concat([i \in 1..Len(map) |-> LE16(map[i])])

\* HueEntStop::pack_to_vec: {u8 x0, u8 x1, u32 LE counter}
HueEntStop_pack(x0, x1, counter) == <<x0, x1>> \o LE32(counter)

\* HueEntFrame::pack: {u32 LE counter, u16 LE smoothing, [light records]}
HueEntFrame_pack(counter, smoothing, blks) ==
    LE32(counter) \o LE16(smoothing)
       \o Concat([i \in 1..Len(blks) |->
                    LE16(blks[i].addr) \o LE16(blks[i].brightness) \o blks[i].raw])

\* EntertainmentZigbeeStream::new
new(counter) == [smoothing |-> DEFAULT_SMOOTHING, counter |-> counter]

\* what a call of the stream leaves: the stream, the message it returned,
\* and whether it panicked instead
Returned(s, m) == [stream |-> s, msg |-> m, panicked |-> FALSE]

segment_mapping(s, map) ==
    Returned(s, ZigbeeMessage(CMD_SEGMENT_MAP, HueEntSegmentConfig_pack(map)))

reset(s) ==
    Returned(s, ZigbeeMessage(CMD_RESET, HueEntStop_pack(0, 1, s.counter)))

\* fn frame: self.counter += 1 panics on overflow where overflow checks are
\* on, and wraps where they are off
frame(s, blks, build) ==
    IF s.counter = U32_MAX /\ build = "debug"
    THEN [stream |-> s, msg |-> NoMsg, panicked |-> TRUE]
    ELSE LET next == IF s.counter = U32_MAX THEN U32(0, 0) ELSE Plus(s.counter, 1) IN
         Returned([s EXCEPT !.counter = next],
                  ZigbeeMessage(CMD_FRAME, HueEntFrame_pack(s.counter, s.smoothing, blks)))

\* the session of a stream: the counter it started at, the calls made, the
\* frame calls among them, the counter the last frame carried, a panic
Session(start) ==
    [start |-> start, ncalls |-> 0, nframes |-> 0, prev |-> None, panicked |-> FALSE]

\* the codec and the stream at rest
\* ------------------------------------------------------------------------
\* zcl::hue: the messages of the entertainment cluster, parsed
\* ------------------------------------------------------------------------
\* (variant: the two bytes are read the other way round)
from_be_bytes_swapped(b) == b[1] + 256 * b[2]

\* u16::from_be_bytes
from_be_bytes(b) == 256 * b[1] + b[2]

\* u16::from_le_bytes
from_le_bytes(b) == b[1] + 256 * b[2]

\* what a parser returns: Ok(value), Err(InvalidValue), or a panic
NoParse == [res |-> "none", count |-> 0, members |-> <<>>,
            counter |-> U32(0, 0), x0 |-> 0, blks |-> <<>>]

InvalidValue == [NoParse EXCEPT !.res = "InvalidValue"]

\* the loop of HueEntStart::parse
RECURSIVE start_members(_)
start_members(data) ==
    IF data = <<>> THEN <<>>
    ELSE <<from_le_bytes(SubSeq(data, 1, 2))>> \o start_members(SubSeq(data, 3, Len(data)))

\* HueEntStart::parse
HueEntStart_parse(data) ==
    IF Len(data) < 2 THEN InvalidValue
    ELSE LET hdr   == SubSeq(data, 1, 2)
             rest  == SubSeq(data, 3, Len(data))
             count == from_be_bytes(hdr)
         IN IF count * 2 # Len(rest) THEN InvalidValue
            ELSE [NoParse EXCEPT !.res = "ok", !.count = count,
                                 !.members = start_members(rest)]

\* HueEntFrameHeader::unpack_from_slice (lsb): counter, x0
HueEntFrameHeader_unpack(b) ==
    [counter |-> read_LE32(SubSeq(b, 1, 4)), x0 |-> from_le_bytes(SubSeq(b, 5, 6))]

\* HueEntFrameLight::unpack_from_slice (lsb): addr, b, raw
HueEntFrameLight_unpack(b) ==
    [addr |-> from_le_bytes(SubSeq(b, 1, 2)), b |-> from_le_bytes(SubSeq(b, 3, 4)),
     raw |-> SubSeq(b, 5, 7)]

\* the loop of HueEntFrame::parse: &data[..7] panics on a slice shorter
\* than seven bytes
RECURSIVE frame_blks(_)
frame_blks(data) ==
    IF data = <<>> THEN [panicked |-> FALSE, blks |-> <<>>]
    ELSE IF Len(data) < 7 THEN [panicked |-> TRUE, blks |-> <<>>]
    ELSE LET r == frame_blks(SubSeq(data, 8, Len(data))) IN
         [r EXCEPT !.blks = <<HueEntFrameLight_unpack(SubSeq(data, 1, 7))>> \o @]

\* HueEntFrame::parse
HueEntFrame_parse(data) ==
    IF Len(data) < 8 + 5 THEN InvalidValue
    ELSE LET hdr == HueEntFrameHeader_unpack(SubSeq(data, 1, 6))
             r   == frame_blks(SubSeq(data, 7, Len(data)))
         IN IF r.panicked THEN [NoParse EXCEPT !.res = "panic"]
            ELSE [NoParse EXCEPT !.res = "ok", !.counter = hdr.counter,
                                 !.x0 = hdr.x0, !.blks = r.blks]

NoZcl == [data |-> <<>>, call |-> "none", out |-> NoParse]

NoMeta == [a |-> <<>>, b |-> <<>>, upd |-> <<>>, sum |-> <<>>]

\* ------------------------------------------------------------------------
\* svc::policy: the retry policy of a service
\* ------------------------------------------------------------------------
\* enum Retry
Retry(kind, limit) == [kind |-> kind, limit |-> limit]

\* struct Policy
Policy(retry, delay) == [retry |-> retry, delay |-> delay]

\* Policy::new
Policy_new == Policy(Retry("No", 0), None)

\* (variant: one more retry than the limit)
should_retry_le(self, retry) ==
    CASE self.retry.kind = "No" -> FALSE
      [] self.retry.kind = "Limit" -> retry <= self.retry.limit
      [] self.retry.kind = "Forever" -> TRUE

\* Policy::should_retry
should_retry(self, retry) ==
    CASE self.retry.kind = "No" -> FALSE
      [] self.retry.kind = "Limit" -> retry < self.retry.limit
      [] self.retry.kind = "Forever" -> TRUE

\* the standard runner around an inner service: when the inner service
\* fails it asks should_retry(retries so far); on yes it counts the retry,
\* sleeps the delay of the policy and restarts the inner service, on no it
\* goes to Failed and terminates
runner_on_failure(r) ==
    IF should_retry(r.policy, r.retries)
    THEN [r EXCEPT !.retries = @ + 1,
                   !.state = IF IsSome(r.policy.delay) THEN "Sleeping" ELSE "Running"]
    ELSE [r EXCEPT !.state = "Failed"]

NoRunner == [policy |-> Policy_new, retries |-> 0, state |-> "Registered"]

InitPure ==
    /\ zcl = NoZcl
    /\ meta = NoMeta
    /\ runner = NoRunner

InitHz ==
    /\ hz = HueZigbeeUpdate
    /\ wire = NoWire
    /\ back = NoBack
    /\ stream = new(U32(0, 0))
    /\ msg = NoMsg
    /\ sess = Session(U32(0, 0))

InitWire == InitHz /\ InitPure

\* ========================================================================
\* Service manager
\* ========================================================================
ServiceState == {"Registered", "Starting", "Running", "Stopping", "Stopped", "Failed"}

\* the states a service reports about itself
ReportedStates == {"Running", "Stopped", "Failed"}

ServiceNames == {"http", "z2m"}

\* ServiceId: a name or a uuid
ById(id) == [t |-> "Id", name |-> "", id |-> id]

ByName(n) == [t |-> "Name", name |-> n, id |-> 0]

NoArg == [t |-> "None", name |-> "", id |-> 0]

\* the manager's own state as one value, with the return value of the last call
Mgr == [svcs |-> svcs, names |-> names, tasks |-> tasks, shutdown |-> shutdown,
        frames |-> frames, mgr |-> mgr, reply |-> reply, ret |-> "Ok", rid |-> 0]

\* st: "idle" (no rpc yet), "none" (waiting), "ok", "err", or "dropped" (the
\* reply sender was dropped: rx.await fails); kind: the request it answers
NoReply == [st |-> "none", kind |-> "", err |-> "", id |-> 0, state |-> "", list |-> {}]

\* rpc.respond(...) with a value; dropping the RpcRequest unanswered
Respond(s, rid, r) == [s EXCEPT !.reply[rid] = [r EXCEPT !.kind = s.reply[rid].kind]]

RespondRet(s, rid) ==
    Respond(s, rid, IF s.ret = "Ok" THEN [NoReply EXCEPT !.st = "ok", !.id = s.rid]
                    ELSE [NoReply EXCEPT !.st = "err", !.err = s.ret])

DropRpc(s, rid) == Respond(s, rid, [NoReply EXCEPT !.st = "dropped"])

\* fn resolve: the id of a handle, 0 when there is none
resolve(s, h) ==
    IF h.t = "Name"
    THEN IF h.name \in DOMAIN s.names THEN s.names[h.name] ELSE 0
    ELSE IF h.id \in DOMAIN s.svcs THEN h.id ELSE 0

\* Uuid::new_v4(): an id never used before
NewUuid(s) == Cardinality(DOMAIN s.tasks) + 1

\* (variant: the task is spawned before the name is looked up)
register_spawn(s, name) ==
    LET id == NewUuid(s)
        s0 == [s EXCEPT !.tasks = Put(s.tasks, id, "running")]
    IN IF name \in DOMAIN s.names
       THEN [s0 EXCEPT !.ret = "ServiceAlreadyExists"]
       ELSE [s0 EXCEPT !.svcs = Put(s.svcs, id, [tx |-> "Registered", name |-> name,
                                               state |-> "Registered"]),
                       !.names = Put(s.names, name, id),
                       !.ret = "Ok", !.rid = id]

\* fn register
register(s, name) ==
    IF name \in DOMAIN s.names
    THEN [s EXCEPT !.ret = "ServiceAlreadyExists"]
    ELSE LET id == NewUuid(s) IN
         [s EXCEPT !.tasks = Put(s.tasks, id, "running"),
                   !.svcs = Put(s.svcs, id, [tx |-> "Registered", name |-> name,
                                            state |-> "Registered"]),
                   !.names = Put(s.names, name, id),
                   !.ret = "Ok", !.rid = id]

\* watch::Sender::send: fails once the receiver (held by the task) is gone
tx_send(s, id, st) ==
    IF s.tasks[id] = "running"
    THEN [s EXCEPT !.svcs[id].tx = st, !.ret = "Ok"]
    ELSE [s EXCEPT !.ret = "SendError"]

\* (variant: the manager writes the state it asks for)
start_assert(s, h) ==
    LET id == resolve(s, h) IN
    IF id = 0 THEN [s EXCEPT !.ret = "ServiceNotFound"]
    ELSE tx_send([s EXCEPT !.svcs[id].state = "Starting"], id, "Running")

\* fn start
start(s, h) ==
    LET id == resolve(s, h) IN
    IF id = 0 THEN [s EXCEPT !.ret = "ServiceNotFound"]
    ELSE tx_send(s, id, "Running")

\* (variant: without the early return for a Stopped service)
stop_always(s, h) ==
    LET id == resolve(s, h) IN
    IF id = 0 THEN [s EXCEPT !.ret = "ServiceNotFound"]
    ELSE tx_send(s, id, "Stopped")

\* fn stop
stop(s, h) ==
    LET id == resolve(s, h) IN
    IF id = 0 THEN [s EXCEPT !.ret = "ServiceNotFound"]
    ELSE IF s.svcs[id].state = "Stopped" THEN [s EXCEPT !.ret = "Ok"]
    ELSE tx_send(s, id, "Stopped")

\* (variant: the names of the removed service are kept)
remove_keep_names(s, h) ==
    LET id == resolve(s, h) IN
    IF id = 0 THEN [s EXCEPT !.ret = "ServiceNotFound"]
    ELSE [s EXCEPT !.svcs = Remove(s.svcs, id), !.ret = "Ok"]

\* fn remove
remove(s, h) ==
    LET id == resolve(s, h) IN
    IF id = 0 THEN [s EXCEPT !.ret = "ServiceNotFound"]
    ELSE [s EXCEPT !.svcs = Remove(s.svcs, id),
                   !.names = [n \in {x \in DOMAIN s.names : s.names[x] # id}
                                 |-> s.names[n]],
                   !.ret = "Ok"]

\* fn abort
abort(s, h) ==
    LET id == resolve(s, h) IN
    IF id = 0 THEN [s EXCEPT !.ret = "ServiceNotFound"]
    ELSE remove([s EXCEPT !.tasks[id] = IF @ = "running" THEN "aborted" ELSE @], h)

\* fn stop_multiple: resolve every handle, then stop each in id order
RECURSIVE stop_each(_, _)
stop_each(s, ids) ==
    IF ids = {} THEN [s EXCEPT !.ret = "Ok"]
    ELSE LET id == Min(ids)
             s1 == stop(s, ById(id))
         IN IF s1.ret # "Ok" THEN s1 ELSE stop_each(s1, ids \ {id})

stop_multiple(s, ids) ==
    IF \E id \in ids : resolve(s, ById(id)) = 0
    THEN [s EXCEPT !.ret = "ServiceNotFound"]
    ELSE stop_each(s, ids)

\* the abort loop of the Shutdown timeout branch: every id of ids, in order
RECURSIVE abort_each(_, _)
abort_each(s, ids) ==
    IF ids = {} THEN [s EXCEPT !.ret = "Ok"]
    ELSE LET id == Min(ids)
             s1 == abort(s, ById(id))
         IN IF s1.ret # "Ok" THEN s1 ELSE abort_each(s1, ids \ {id})

\* fn wait_for_multiple, one pass of its loop body up to next_event().await
WaitPoll(s, missing, target) ==
    LET bad  == {m \in missing : resolve(s, ById(m)) = 0}
        fail == {m \in missing \ bad : s.svcs[m].state = "Failed"}
        done == {m \in missing \ bad : s.svcs[m].state = target}
    IN IF bad \cup fail # {}
       THEN [res |-> IF Min(bad \cup fail) \in bad THEN "ServiceNotFound"
                     ELSE "ServiceFailed",
             missing |-> missing]
       ELSE [res |-> IF missing \ done = {} THEN "Ok" ELSE "Pending",
             missing |-> missing \ done]

\* fn wait_for_state, one pass of its loop body up to next_event().await
WaitStatePoll(s, id, expected) ==
    IF resolve(s, ById(id)) = 0 THEN "ServiceNotFound"
    ELSE IF s.svcs[id].state = expected THEN "Ok"
    ELSE IF s.svcs[id].state = "Failed" THEN "ServiceFailed"
    ELSE "Pending"

\* the poll of the loop a frame is suspended in
FramePoll(s, f) ==
    IF f.call = "wait_state"
    THEN [res |-> WaitStatePoll(s, CHOOSE m \in f.ids : TRUE, f.target),
          missing |-> f.missing]
    ELSE WaitPoll(s, f.missing, f.target)

Top(s) == s.frames[Len(s.frames)]

Pop(s) == [s EXCEPT !.frames = SubSeq(@, 1, Len(@) - 1)]

\* the end of the Shutdown arm: self.shutdown = true; rpc.respond(..)
FinishShutdown(s, rid) ==
    Respond([s EXCEPT !.shutdown = TRUE], rid, [NoReply EXCEPT !.st = "ok"])

\* A handler returned Err to its caller: run() returns it, or the
\* wait_for_multiple that called next_event returns it and its select! arm
\* is disabled, leaving the sleep.
Fail(s) ==
    IF s.frames = <<>> THEN [s EXCEPT !.mgr = "error"]
    ELSE [s EXCEPT !.frames[Len(s.frames)].wait = "failed"]

\* A handler returned Ok to its caller: run() tests the flag, or the
\* innermost wait_for_multiple goes round its loop. A wait_for_multiple
\* called by the owner returns its result to the owner (kept in wait).
RECURSIVE Resume(_)
Resume(s) ==
    IF s.frames = <<>>
    THEN IF s.shutdown THEN [s EXCEPT !.mgr = "done"] ELSE s
    ELSE LET f == Top(s)
             r == FramePoll(s, f)
         IN IF r.res = "Pending"
            THEN [s EXCEPT !.frames[Len(s.frames)].missing = r.missing]
            ELSE IF f.call = "shutdown"
            THEN IF r.res = "Ok"
                 THEN Resume(FinishShutdown(Pop(s), f.rpc))
                 ELSE [s EXCEPT !.frames[Len(s.frames)].wait = "failed"]
            ELSE [s EXCEPT !.frames[Len(s.frames)].wait = r.res,
                           !.frames[Len(s.frames)].missing = r.missing]

\* SvmRequest::Shutdown up to its first suspension
HandleShutdown(s, rid) ==
    LET ids == DOMAIN s.svcs
        s1  == stop_multiple(s, ids)
    IN IF s1.ret # "Ok" THEN Fail(DropRpc(s1, rid))
       ELSE Resume([s1 EXCEPT !.frames =
                Append(@, [rpc |-> rid, ids |-> ids, missing |-> ids,
                           wait |-> "polling", call |-> "shutdown",
                           target |-> "Stopped"])])

\* the sleep of the k-th Shutdown in progress fires: the futures nested in
\* its wait are dropped, every id of ids is aborted
DropFrom(s, k) ==
    [s EXCEPT !.frames = SubSeq(@, 1, k - 1),
              !.reply = [r \in DOMAIN @ |->
                            IF \E j \in (k + 1)..Len(s.frames) : s.frames[j].rpc = r
                            THEN [@[r] EXCEPT !.st = "dropped"] ELSE @[r]]]

ShutdownTimeout(s, k) ==
    LET f  == s.frames[k]
        s1 == abort_each(DropFrom(s, k), f.ids)
    IN IF s1.ret # "Ok" THEN Fail(DropRpc(s1, f.rpc))
       ELSE Resume(FinishShutdown(s1, f.rpc))

\* fn handle_svm_request
handle_svm_request(s, rid, req) ==
    CASE req.kind = "Start"    -> Resume(RespondRet(start(s, req.arg), rid))
      [] req.kind = "Stop"     -> Resume(RespondRet(stop(s, req.arg), rid))
      [] req.kind = "Status"   ->
            LET id == resolve(s, req.arg) IN
            Resume(Respond(s, rid,
                IF id = 0 THEN [NoReply EXCEPT !.st = "err", !.err = "ServiceNotFound"]
                ELSE [NoReply EXCEPT !.st = "ok", !.state = s.svcs[id].state]))
      [] req.kind = "List"     ->
            Resume(Respond(s, rid, [NoReply EXCEPT !.st = "ok",
                !.list = {<<s.names[n], n>> : n \in DOMAIN s.names}]))
      [] req.kind = "Register" -> Resume(RespondRet(register(s, req.arg.name), rid))
      [] req.kind = "Shutdown" -> HandleShutdown(s, rid)

\* (variant: the state of the event is not written)
handle_service_event_drop(s, ev) ==
    IF ev.id \notin DOMAIN s.svcs THEN [s EXCEPT !.mgr = "panicked"]
    ELSE Resume(s)

\* fn handle_service_event: indexing svcs with an unknown id panics
handle_service_event(s, ev) ==
    IF ev.id \notin DOMAIN s.svcs THEN [s EXCEPT !.mgr = "panicked"]
    ELSE Resume([s EXCEPT !.svcs[ev.id].state = ev.state])

\* next_event is being awaited: by run(), or by the innermost wait_for_multiple
AwaitingEvent ==
    /\ mgr = "running"
    /\ frames # <<>> => frames[Len(frames)].wait = "polling"

Install(s) ==
    /\ svcs' = s.svcs
    /\ names' = s.names
    /\ tasks' = s.tasks
    /\ shutdown' = s.shutdown
    /\ frames' = s.frames
    /\ mgr' = s.mgr
    /\ reply' = s.reply

\* SvmClient clones, each with one rpc at a time: one that manages the
\* services and one that only asks for the shutdown
Clients == {"admin", "signal"}

Idle == [NoReply EXCEPT !.st = "idle"]

InitSvm ==
    /\ svcs = EmptyMap
    /\ names = EmptyMap
    /\ tasks = EmptyMap
    /\ control_rx = <<>>
    /\ service_rx = <<>>
    /\ shutdown = FALSE
    /\ frames = <<>>
    /\ mgr = "running"
    /\ reply = [c \in Clients |-> Idle]

Handles == {ById(i) : i \in 1..MaxSvcs} \cup {ByName(n) : n \in ServiceNames}

Requests ==
    [kind : {"Start", "Stop"}, arg : {ById(i) : i \in 1..MaxSvcs}]
      \cup [kind : {"Status"}, arg : Handles]
      \cup [kind : {"Register"}, arg : {ByName(n) : n \in ServiceNames}]
      \cup [kind : {"List", "Shutdown"}, arg : {NoArg}]

ClientRequests(c) ==
    IF c = "admin" THEN Requests ELSE [kind : {"Shutdown"}, arg : {NoArg}]

\* ids still to be handed out once the Register requests in flight are served
RegisterBudget ==
    MaxSvcs - Cardinality(DOMAIN tasks)
            - Cardinality({i \in 1..Len(control_rx) : control_rx[i].kind = "Register"})

\* SvmClient::rpc: a client puts a request on the control channel and then
\* waits for its reply. When run() has returned the manager is dropped, and
\* with it the channels and the JoinSet (which aborts its tasks).
ClientSend ==
    /\ mgr = "running"
    /\ \E c \in Clients :
       \E req \in ClientRequests(c) :
          /\ reply[c].st # "none"
          /\ req.kind = "Register" => RegisterBudget > 0
          /\ reply' = [reply EXCEPT ![c] = [NoReply EXCEPT !.kind = req.kind]]
          /\ control_rx' = Append(control_rx, [client |-> c, kind |-> req.kind,
                                               arg |-> req.arg])
    /\ UNCHANGED <<svcs, names, tasks, service_rx, shutdown, frames, mgr>> /\ SvmFrame

\* next_event, the control_rx arm
NextControl ==
    /\ AwaitingEvent
    /\ control_rx # <<>>
    /\ control_rx' = Tail(control_rx)
    /\ Install(handle_svm_request(Mgr, Head(control_rx).client, Head(control_rx)))
    /\ UNCHANGED service_rx /\ SvmFrame

\* next_event, the service_rx arm
NextService ==
    /\ AwaitingEvent
    /\ service_rx # <<>>
    /\ service_rx' = Tail(service_rx)
    /\ Install(handle_service_event(Mgr, Head(service_rx)))
    /\ UNCHANGED control_rx /\ SvmFrame

\* the 3 s sleep of a Shutdown in progress elapses
Timeout ==
    /\ mgr = "running"
    /\ \E k \in 1..Len(frames) :
          /\ frames[k].call = "shutdown"
          /\ Install(ShutdownTimeout(Mgr, k))
    /\ UNCHANGED <<control_rx, service_rx>> /\ SvmFrame

\* a service task reports a state of its own
SvcReport ==
    /\ mgr = "running"
    /\ Len(service_rx) < MaxQueue
    /\ \E id \in DOMAIN tasks, st \in ReportedStates :
          /\ tasks[id] = "running"
          /\ service_rx' = Append(service_rx, [id |-> id, state |-> st])
    /\ UNCHANGED <<svcs, names, tasks, control_rx, shutdown, frames, mgr, reply>> /\ SvmFrame

\* a service task runs to completion, dropping its state receiver
SvcFinish ==
    /\ mgr = "running"
    /\ \E id \in DOMAIN tasks :
          /\ tasks[id] = "running"
          /\ tasks' = [tasks EXCEPT ![id] = "finished"]
    /\ UNCHANGED <<svcs, names, control_rx, service_rx, shutdown, frames, mgr, reply>>
    /\ SvmFrame

\* ========================================================================
\* Resource store
\* ========================================================================
MaxIds == 2         \* uuids the adapters use

MaxStoreOps == 3    \* add, delete and update calls made on the new store

Ids == 1..MaxIds

\* the resource types of the model; exactly those of ConvTypes have a
\* resource_conversion_impl!, so only they can be the T of get and update
RTypes == {"Light", "GroupedLight", "Scene", "Room", "Device", "DevicePower",
           "Bridge", "BridgeHome"}

ConvTypes == {"Light", "GroupedLight", "Scene", "Room", "Device", "Bridge", "BridgeHome"}

NoLink == [rid |-> 0, rtype |-> ""]

Link(rid, rtype) == [rid |-> rid, rtype |-> rtype]

\* a Resource: the variant tag and the fields the store reads
Blank == [rtype |-> "", on |-> FALSE, bri |-> 0, mode |-> "None", mirek |-> 0,
          xy |-> <<>>, group |-> NoLink, status |-> "None", name |-> "",
          owner |-> NoLink, children |-> {}, services |-> {}]

Light(on, bri, mode, mirek, xy) ==
    [Blank EXCEPT !.rtype = "Light", !.on = on, !.bri = bri, !.mode = mode,
                  !.mirek = mirek, !.xy = xy]

GroupedLight(on, bri) == [Blank EXCEPT !.rtype = "GroupedLight", !.on = on, !.bri = bri]

Scene(group, status) == [Blank EXCEPT !.rtype = "Scene", !.group = group, !.status = status]

Room(name) == [Blank EXCEPT !.rtype = "Room", !.name = name]

Device(name) == [Blank EXCEPT !.rtype = "Device", !.name = name]

DevicePower(name) == [Blank EXCEPT !.rtype = "DevicePower", !.name = name]

Bridge(bridge_id, owner) ==
    [Blank EXCEPT !.rtype = "Bridge", !.name = bridge_id, !.owner = owner]

BridgeHome(children, services) ==
    [Blank EXCEPT !.rtype = "BridgeHome", !.children = children, !.services = services]

\* Resource::rtype
rtype(obj) == obj.rtype

ColorModes == {"None", "ColorTemp", "Xy"}

SceneActives == {"None", "Inactive", "Static", "DynamicPalette"}

RoomLink == Link(1, "Room")

\* the resources the adapters add
Objs ==
    {Light(FALSE, 0, m, 300, <<40, 40>>) : m \in ColorModes}
      \cup {GroupedLight(FALSE, 0)}
      \cup {Scene(RoomLink, a) : a \in SceneActives}
      \cup {Room("a"), Device("a"), DevicePower("a")}

\* the closures the adapters pass to update / try_update, each for a view T
Funcs == {"light_scenario", "light_fail", "glight_on", "scene_static",
          "scene_touch", "room_rename", "device_rename"}

FuncT(f) ==
    CASE f \in {"light_scenario", "light_fail"} -> "Light"
      [] f = "glight_on" -> "GroupedLight"
      [] f \in {"scene_static", "scene_touch"} -> "Scene"
      [] f = "room_rename" -> "Room"
      [] f = "device_rename" -> "Device"

\* func(obj): what the closure does to the typed view
Apply(f, obj) ==
    CASE f = "light_scenario" -> [obj EXCEPT !.on = TRUE, !.bri = 50, !.xy = <<50, 45>>]
      [] f = "light_fail"     -> [obj EXCEPT !.on = TRUE, !.bri = 50, !.xy = <<50, 45>>]
      [] f = "glight_on"      -> [obj EXCEPT !.on = TRUE, !.bri = 50]
      [] f = "scene_static"   -> [obj EXCEPT !.status = "Static"]
      [] f = "scene_touch"    -> obj
      [] f = "room_rename"    -> [obj EXCEPT !.name = "b"]
      [] f = "device_rename"  -> [obj EXCEPT !.name = "b"]

\* a try_update closure may return Err, after it has written to the view
FuncFails(f) == f = "light_fail"

\* updates and events
NoUpd == [t |-> "", on |-> FALSE, bri |-> 0, mirek |-> -1, xy |-> <<>>, recall |-> ""]

NoEvent == [kind |-> "", id |-> 0, rtype |-> "", obj |-> Blank, upd |-> NoUpd]

\* EventBlock::add / update / delete
EventAdd(id, obj) == [NoEvent EXCEPT !.kind = "Add", !.id = id, !.rtype = rtype(obj), !.obj = obj]

EventUpdate(id, upd) == [NoEvent EXCEPT !.kind = "Update", !.id = id, !.upd = upd]

EventDelete(link) == [NoEvent EXCEPT !.kind = "Delete", !.id = link.rid, !.rtype = link.rtype]

\* (variant: the status is copied into the recall action)
with_recall_action_copy(active) ==
    CASE active = "DynamicPalette" -> "DynamicPalette"
      [] active = "Static" -> "Static"
      [] OTHER -> "None"

\* SceneUpdate::with_recall_action
with_recall_action(active) ==
    CASE active = "DynamicPalette" -> "DynamicPalette"
      [] active = "Static" -> "Active"
      [] OTHER -> "None"

\* (variant: a Room yields an update like a GroupedLight)
generate_update_room(obj) ==
    CASE rtype(obj) = "Light" ->
            [ok |-> TRUE, some |-> TRUE,
             upd |-> [NoUpd EXCEPT !.t = "Light", !.bri = obj.bri, !.on = obj.on,
                        !.mirek = IF obj.mode = "ColorTemp" THEN obj.mirek ELSE -1,
                        !.xy = IF obj.mode = "Xy" THEN obj.xy ELSE <<>>]]
      [] rtype(obj) \in {"GroupedLight", "Room"} ->
            [ok |-> TRUE, some |-> TRUE,
             upd |-> [NoUpd EXCEPT !.t = rtype(obj), !.bri = obj.bri, !.on = obj.on]]
      [] rtype(obj) = "Scene" ->
            [ok |-> TRUE, some |-> TRUE,
             upd |-> [NoUpd EXCEPT !.t = "Scene", !.recall = with_recall_action(obj.status)]]
      [] OTHER -> [ok |-> FALSE, some |-> FALSE, upd |-> NoUpd]

\* fn generate_update: [ok, some, upd]
generate_update(obj) ==
    CASE rtype(obj) = "Light" ->
            [ok |-> TRUE, some |-> TRUE,
             upd |-> [NoUpd EXCEPT !.t = "Light", !.bri = obj.bri, !.on = obj.on,
                        !.mirek = IF obj.mode = "ColorTemp" THEN obj.mirek ELSE -1,
                        !.xy = IF obj.mode = "Xy" THEN obj.xy ELSE <<>>]]
      [] rtype(obj) = "GroupedLight" ->
            [ok |-> TRUE, some |-> TRUE,
             upd |-> [NoUpd EXCEPT !.t = "GroupedLight", !.bri = obj.bri, !.on = obj.on]]
      [] rtype(obj) = "Scene" ->
            [ok |-> TRUE, some |-> TRUE,
             upd |-> [NoUpd EXCEPT !.t = "Scene", !.recall = with_recall_action(obj.status)]]
      [] rtype(obj) = "Room" -> [ok |-> TRUE, some |-> FALSE, upd |-> NoUpd]
      [] OTHER -> [ok |-> FALSE, some |-> FALSE, upd |-> NoUpd]

\* the result of a store call
\* (pre: what the map held under the id when the call began, Blank for nothing)
NoLast == [op |-> "none", link |-> NoLink, T |-> "", func |-> "", obj |-> Blank,
           pre |-> Blank, ok |-> TRUE, err |-> "", expected |-> "", actual |-> "",
           events |-> <<>>, val |-> Blank, n |-> 0, arg |-> ""]

Pre(rs, id) == IF id \in DOMAIN rs THEN rs[id] ELSE Blank

Ok(r) == [r EXCEPT !.ok = TRUE]

Err(r, e) == [r EXCEPT !.ok = FALSE, !.err = e]

\* resource_conversion_impl!: TryFrom<Resource> for T
try_into(r, obj, T) ==
    IF rtype(obj) = T THEN Ok([r EXCEPT !.val = obj])
    ELSE [Err(r, "WrongType") EXCEPT !.expected = "Light", !.actual = rtype(obj)]

\* fn get
get(rs, link, T) ==
    LET r == [NoLast EXCEPT !.op = "get", !.link = link, !.T = T] IN
    IF link.rid \in DOMAIN rs /\ rtype(rs[link.rid]) = link.rtype
    THEN try_into(r, rs[link.rid], T)
    ELSE Err(r, "NotFound")

\* fn get_resource_by_id
get_resource_by_id(rs, id) ==
    LET r == [NoLast EXCEPT !.op = "get_resource_by_id", !.link = Link(id, "")] IN
    IF id \in DOMAIN rs THEN Ok([r EXCEPT !.val = rs[id]]) ELSE Err(r, "NotFound")

\* (variant: the delta is taken from the object as it was before the closure ran)
try_update_stale(rs, id, T, f) ==
    LET r == [NoLast EXCEPT !.op = "update", !.link = Link(id, ""), !.T = T, !.func = f,
                            !.pre = Pre(rs, id)] IN
    IF id \notin DOMAIN rs THEN [res |-> rs, r |-> Err(r, "NotFound")]
    ELSE LET view == try_into(r, rs[id], T) IN
         IF ~view.ok THEN [res |-> rs, r |-> [view EXCEPT !.val = Blank]]
         ELSE LET rs1 == [rs EXCEPT ![id] = Apply(f, rs[id])]
                  g   == generate_update(rs[id])
              IN IF FuncFails(f) THEN [res |-> rs1, r |-> Err(r, "Closure")]
                 ELSE IF ~g.ok
                 THEN [res |-> rs1,
                       r |-> [Err(r, "UpdateUnsupported") EXCEPT !.actual = rtype(rs[id])]]
                 ELSE [res |-> rs1,
                       r |-> Ok([r EXCEPT !.events =
                                  IF g.some THEN <<EventUpdate(id, g.upd)>> ELSE <<>>])]

\* fn try_update: the new map and the result
try_update(rs, id, T, f) ==
    LET r == [NoLast EXCEPT !.op = "update", !.link = Link(id, ""), !.T = T, !.func = f,
                            !.pre = Pre(rs, id)] IN
    IF id \notin DOMAIN rs THEN [res |-> rs, r |-> Err(r, "NotFound")]
    ELSE LET view == try_into(r, rs[id], T) IN
         IF ~view.ok THEN [res |-> rs, r |-> [view EXCEPT !.val = Blank]]
         ELSE LET obj == Apply(f, rs[id])
                  rs1 == [rs EXCEPT ![id] = obj]
                  g   == generate_update(obj)
              IN IF FuncFails(f) THEN [res |-> rs1, r |-> Err(r, "Closure")]
                 ELSE IF ~g.ok
                 THEN [res |-> rs1,
                       r |-> [Err(r, "UpdateUnsupported") EXCEPT !.actual = rtype(obj)]]
                 ELSE [res |-> rs1,
                       r |-> Ok([r EXCEPT !.events =
                                  IF g.some THEN <<EventUpdate(id, g.upd)>> ELSE <<>>])]

\* what the snapshot of add meets on disk
DiskOutcomes == {"ok", "create_fails", "write_fails", "rename_fails"}

\* fn save: the YAML document of (res, aux), each map as its set of entries
NoFile == [exists |-> FALSE, res |-> {}, aux |-> {}]

Entries(f) == {<<k, f[k]>> : k \in DOMAIN f}

save(rs, ax) == [exists |-> TRUE, res |-> Entries(rs), aux |-> Entries(ax)]

\* fn load: the maps read back from a document
FromEntries(S) == [k \in {e[1] : e \in S} |-> (CHOOSE e \in S : e[1] = k)[2]]

load(doc) == [res |-> FromEntries(doc.res), aux |-> FromEntries(doc.aux)]

\* (variant: an entry already under the id is kept, as with entry().or_insert)
add_keep(rs, link, obj, disk) ==
    LET r == [NoLast EXCEPT !.op = "add", !.link = link, !.obj = obj,
                            !.pre = Pre(rs, link.rid)] IN
    IF link.rtype # rtype(obj) THEN [res |-> rs, saved |-> FALSE, r |-> Err(r, "panic")]
    ELSE LET rs1 == IF link.rid \in DOMAIN rs THEN rs ELSE Put(rs, link.rid, obj) IN
         IF disk \in {"write_fails", "rename_fails"}
         THEN [res |-> rs1, saved |-> FALSE, r |-> Err(r, "IoError")]
         ELSE [res |-> rs1, saved |-> disk = "ok",
               r |-> Ok([r EXCEPT !.events =
                          <<EventAdd(link.rid, get_resource_by_id(rs1, link.rid).val)>>])]

\* fn add: the new map, the result, and whether state.yaml was replaced by a
\* snapshot of the new store (File::create, save and rename all succeeded)
add(rs, link, obj, disk) ==
    LET r == [NoLast EXCEPT !.op = "add", !.link = link, !.obj = obj,
                            !.pre = Pre(rs, link.rid)] IN
    IF link.rtype # rtype(obj) THEN [res |-> rs, saved |-> FALSE, r |-> Err(r, "panic")]
    ELSE LET rs1 == Put(rs, link.rid, obj) IN
         IF disk \in {"write_fails", "rename_fails"}
         THEN [res |-> rs1, saved |-> FALSE, r |-> Err(r, "IoError")]
         ELSE [res |-> rs1, saved |-> disk = "ok",
               r |-> Ok([r EXCEPT !.events =
                          <<EventAdd(link.rid, get_resource_by_id(rs1, link.rid).val)>>])]

\* (variant: the entry is removed only when its type is the link's)
delete_checked(rs, link) ==
    LET r == [NoLast EXCEPT !.op = "delete", !.link = link, !.pre = Pre(rs, link.rid)] IN
    IF link.rid \notin DOMAIN rs \/ rtype(Pre(rs, link.rid)) # link.rtype
    THEN [res |-> rs, r |-> Err(r, "NotFound")]
    ELSE [res |-> Remove(rs, link.rid),
          r |-> Ok([r EXCEPT !.events = <<EventDelete(link)>>])]

\* fn delete: the new map and the result
delete(rs, link) ==
    LET r == [NoLast EXCEPT !.op = "delete", !.link = link, !.pre = Pre(rs, link.rid)] IN
    IF link.rid \notin DOMAIN rs THEN [res |-> rs, r |-> Err(r, "NotFound")]
    ELSE [res |-> Remove(rs, link.rid),
          r |-> Ok([r EXCEPT !.events = <<EventDelete(link)>>])]

\* the adapters that share the store, and the subscribers of its channel
Adapters == {"hue", "z2m"}

Subscribers == {"sse"}

NoSeen == [seq |-> 0, ev |-> NoEvent]

InitConc ==
    /\ lock = "free"
    /\ apc = [a \in Adapters |-> "idle"]
    /\ apend = [a \in Adapters |-> <<>>]
    /\ applied = 0
    /\ chan = <<>>
    /\ first = 1
    /\ subs = [s \in Subscribers |-> 0]
    /\ seen = [s \in Subscribers |-> NoSeen]

InitStore ==
    /\ res = EmptyMap
    /\ aux = EmptyMap
    /\ last = NoLast
    /\ snap = NoFile

\* the links the adapters read and delete with, and the views they ask for
Links == {Link(i, t) : i \in Ids, t \in {"Light", "Room"}}

Views == {"Light", "Room"}

\* the (link, resource) pairs the adapters add: the link made from the
\* resource, and one made with another type
AddArgs ==
    {<<Link(i, rtype(o)), o>> : i \in Ids, o \in Objs}
      \cup {<<Link(i, "Light"), Room("a")>> : i \in Ids}

Add ==
    \E a \in AddArgs, disk \in DiskOutcomes :
        LET c == add(res, a[1], a[2], disk) IN
        /\ applied < MaxStoreOps
        /\ applied' = applied + 1
        /\ res' = c.res
        /\ last' = c.r
        /\ snap' = IF c.saved THEN save(c.res, aux) ELSE snap
        /\ UNCHANGED aux /\ StoreCallFrame

Delete ==
    \E link \in Links :
        LET c == delete(res, link) IN
        /\ applied < MaxStoreOps
        /\ applied' = applied + 1
        /\ res' = c.res
        /\ last' = c.r
        /\ UNCHANGED <<aux, snap>> /\ StoreCallFrame

\* update::<T>(id, func) and try_update::<T>(id, func)
Update ==
    \E id \in Ids, f \in Funcs :
        LET c == try_update(res, id, FuncT(f), f) IN
        /\ applied < MaxStoreOps
        /\ applied' = applied + 1
        /\ res' = c.res
        /\ last' = c.r
        /\ UNCHANGED <<aux, snap>> /\ StoreCallFrame

Get ==
    \E link \in Links, T \in Views :
        /\ last' = get(res, link, T)
        /\ UNCHANGED <<res, aux, snap>> /\ StoreFrame

GetResourceById ==
    \E id \in Ids :
        /\ last' = get_resource_by_id(res, id)
        /\ UNCHANGED <<res, aux, snap>> /\ StoreFrame

Next ==
    \/ Add
    \/ Delete
    \/ Update
    \/ Get
    \/ GetResourceById

Init == InitSvm /\ InitStore /\ InitConc /\ InitWire

Spec == Init /\ [][Next]_vars

\* ------------------------------------------------------------------------
\* Properties of the resource store
\* ------------------------------------------------------------------------
Mutating == {"add", "delete", "update"}

\* C4: a successful update::<Light> sends exactly one Update event for the id,
\* carrying the brightness and on of the light as stored after the closure,
\* and the mirek only under ColorTemp, the xy only under Xy.
C4_LightUpdateEvent ==
    (last.op = "update" /\ last.ok /\ last.T = "Light") =>
        LET L == res[last.link.rid] IN
        /\ Len(last.events) = 1
        /\ last.events[1].kind = "Update"
        /\ last.events[1].id = last.link.rid
        /\ last.events[1].upd.t = "Light"
        /\ last.events[1].upd.bri = L.bri
        /\ last.events[1].upd.on = L.on
        /\ last.events[1].upd.mirek = (IF L.mode = "ColorTemp" THEN L.mirek ELSE -1)
        /\ last.events[1].upd.xy = (IF L.mode = "Xy" THEN L.xy ELSE <<>>)

\* scenario 1: an Xy light that was off at brightness 0 and xy (0.40, 0.40)
C4_Witness ==
    /\ last.op = "update" /\ last.ok /\ last.T = "Light"
    /\ last.pre = Light(FALSE, 0, "Xy", 300, <<40, 40>>)
    /\ last.events = <<EventUpdate(last.link.rid,
            [NoUpd EXCEPT !.t = "Light", !.on = TRUE, !.bri = 50, !.xy = <<50, 45>>])>>

\* C5: after a successful add(link, r), get(link) returns r and
\* get_resource_by_id(link.rid) has type link.rtype, also when the id was
\* taken before the call.
C5_AddThenGet ==
    (last.op = "add" /\ last.ok) =>
        /\ last.link.rtype \in ConvTypes =>
              /\ get(res, last.link, last.link.rtype).ok
              /\ get(res, last.link, last.link.rtype).val = last.obj
        /\ get_resource_by_id(res, last.link.rid).ok
        /\ rtype(get_resource_by_id(res, last.link.rid).val) = last.link.rtype

\* an add over an entry of another type
C5_Witness ==
    /\ last.op = "add" /\ last.ok
    /\ last.pre # Blank /\ rtype(last.pre) # last.link.rtype
    /\ get(res, last.link, last.link.rtype).val = last.obj

\* C6: delete(link) on a present id removes the entry and sends exactly one
\* Delete event, and get(link) then fails with NotFound; on an absent id it
\* fails with NotFound, sends nothing and leaves the store as it was.
C6_Delete ==
    [][last'.op = "delete" =>
          IF last'.link.rid \in DOMAIN res
          THEN /\ last'.ok
               /\ res' = Remove(res, last'.link.rid)
               /\ last'.events = <<EventDelete(last'.link)>>
               /\ \A T \in ConvTypes :
                     /\ ~get(res', last'.link, T).ok
                     /\ get(res', last'.link, T).err = "NotFound"
          ELSE /\ ~last'.ok /\ last'.err = "NotFound"
               /\ last'.events = <<>>
               /\ res' = res /\ aux' = aux]_vars

\* a delete through a link whose type is not the stored one
C6_Witness ==
    /\ last.op = "delete" /\ last.ok
    /\ last.pre # Blank /\ rtype(last.pre) # last.link.rtype
    /\ last.link.rid \notin DOMAIN res

\* C7: get::<T>(link) fails with NotFound when the id is absent, with
\* WrongType(T, stored type) when the stored variant is not T, and succeeds
\* only when the stored variant is T.
C7_GetErrors ==
    last.op = "get" =>
        IF last.link.rid \notin DOMAIN res
        THEN ~last.ok /\ last.err = "NotFound"
        ELSE IF rtype(res[last.link.rid]) # last.T
        THEN /\ ~last.ok /\ last.err = "WrongType"
             /\ last.expected = last.T
             /\ last.actual = rtype(res[last.link.rid])
        ELSE last.ok /\ last.val = res[last.link.rid]

\* C8: update::<T> of a stored T other than Light, GroupedLight, Scene and
\* Room fails with UpdateUnsupported, sends nothing and leaves the resource
\* as it was.
C8_UnsupportedUnchanged ==
    (/\ last.op = "update" /\ last.pre # Blank /\ last.T = rtype(last.pre)
     /\ last.T \notin {"Light", "GroupedLight", "Scene", "Room"}) =>
        /\ ~last.ok /\ last.err = "UpdateUnsupported"
        /\ last.events = <<>>
        /\ res[last.link.rid] = last.pre

\* C9: a successful add, delete or update sends at most one event, and a
\* successful update of a Room none.
C9_AtMostOneEvent ==
    (last.op \in Mutating /\ last.ok) =>
        /\ Len(last.events) <= 1
        /\ (last.op = "update" /\ last.T = "Room") => last.events = <<>>

C9_Witness ==
    /\ last.op = "update" /\ last.ok /\ last.T = "Room"
    /\ last.pre = Room("a") /\ res[last.link.rid] = Room("b")

\* C13: after every successful add, update, delete or aux_set, state.yaml
\* exists and loading it gives the res and aux maps of the store.
C13_SnapshotEqualsStore ==
    (last.op \in {"add", "update", "delete", "aux_set"} /\ last.ok) =>
        /\ snap.exists
        /\ load(snap).res = res
        /\ load(snap).aux = aux

\* C14: an add whose link has the type of the resource returns success,
\* stores the resource and sends the Add event, whatever happens to the
\* snapshot (create, write or rename failing).
C14_DiskFailureTolerated ==
    (last.op = "add" /\ last.link.rtype = rtype(last.obj)) =>
        /\ last.ok
        /\ last.link.rid \in DOMAIN res /\ res[last.link.rid] = last.obj
        /\ last.events = <<EventAdd(last.link.rid, last.obj)>>

\* ========================================================================
\* Adapters sharing the store through its lock; the broadcast channel
\* ========================================================================
MaxMutations == 102   \* mutations applied in one behaviour
MaxUnheard == 2       \* of them, applied before anybody has subscribed

BROADCAST_CAP == 100  \* Sender::new(100)

\* the store the adapters start from: a light and a room, added before
InitConcStore ==
    /\ res = Put(Put(EmptyMap, 1, Light(FALSE, 0, "Xy", 300, <<40, 40>>)), 2, Room("a"))
    /\ aux = EmptyMap
    /\ last = NoLast
    /\ snap = NoFile

\* state.res.lock().await returns the guard only while nobody holds it
(* variant: the guard is handed out whoever holds it *)
CanLockAlways(a) == apc[a] = "idle"

CanLock(a) == apc[a] = "idle" /\ lock = "free"

Lock ==
    \E a \in Adapters :
        /\ CanLock(a)
        /\ lock' = a
        /\ apc' = [apc EXCEPT ![a] = "locked"]
        /\ UNCHANGED <<res, last, apend, applied, chan, first, subs, seen>>
        /\ ConcFrame

\* the calls the adapters make on the locked store
ConcCalls == {<<1, "light_scenario">>}

\* the first half of update(): the closure runs on the stored object and the
\* delta is generated
Mutate ==
    \E a \in Adapters, call \in ConcCalls :
        LET c == try_update(res, call[1], FuncT(call[2]), call[2]) IN
        /\ apc[a] = "locked"
        /\ applied < MaxMutations
        /\ (\A s \in Subscribers : subs[s] = 0) => applied < MaxUnheard
        /\ res' = c.res
        /\ last' = c.r
        /\ applied' = applied + 1
        /\ apend' = [apend EXCEPT ![a] =
              [i \in 1..Len(c.r.events) |->
                  [seq |-> applied + 1, ev |-> c.r.events[i]]]]
        /\ apc' = [apc EXCEPT ![a] = "mutated"]
        /\ UNCHANGED <<lock, chan, first, subs, seen>>
        /\ ConcFrame

\* broadcast::Sender::send: nothing is kept without a receiver; a full ring
\* overwrites its oldest value
RECURSIVE chan_send(_, _)
chan_send(ch, evs) ==
    IF evs = <<>> THEN ch
    ELSE IF \A s \in Subscribers : subs[s] = 0 THEN ch
    ELSE chan_send(IF Len(ch.chan) = BROADCAST_CAP
                   THEN [chan |-> Append(Tail(ch.chan), Head(evs)), first |-> ch.first + 1]
                   ELSE [chan |-> Append(ch.chan, Head(evs)), first |-> ch.first],
                   Tail(evs))

\* the second half of update(): let _ = self.chan.send(..); then the guard
\* is dropped
SendUnlock ==
    \E a \in Adapters :
        LET ch == chan_send([chan |-> chan, first |-> first], apend[a]) IN
        /\ apc[a] = "mutated"
        /\ chan' = ch.chan
        /\ first' = ch.first
        /\ apend' = [apend EXCEPT ![a] = <<>>]
        /\ apc' = [apc EXCEPT ![a] = "idle"]
        /\ lock' = "free"
        /\ UNCHANGED <<res, last, applied, subs, seen>>
        /\ ConcFrame

\* Sender::subscribe: the receiver starts after everything sent so far
Subscribe ==
    \E s \in Subscribers :
        /\ subs[s] = 0
        /\ subs' = [subs EXCEPT ![s] = first + Len(chan)]
        /\ UNCHANGED <<res, last, lock, apc, apend, applied, chan, first, seen>>
        /\ ConcFrame

\* events every subscriber has read are of no further use
Trim(ch, sb) ==
    LET low == Min({sb[s] : s \in {x \in Subscribers : sb[x] # 0}} \cup {ch.first + Len(ch.chan)})
        k   == IF low > ch.first THEN low - ch.first ELSE 0
    IN [chan |-> SubSeq(ch.chan, k + 1, Len(ch.chan)), first |-> ch.first + k]

\* Receiver::recv: the next event, or Lagged and a jump to the oldest kept
Recv ==
    \E s \in Subscribers :
        /\ subs[s] # 0
        /\ subs[s] < first + Len(chan)
        /\ IF subs[s] < first
           THEN /\ subs' = [subs EXCEPT ![s] = first]
                /\ UNCHANGED <<seen, chan, first>>
           ELSE LET sb == [subs EXCEPT ![s] = @ + 1]
                    ch == Trim([chan |-> chan, first |-> first], sb)
                IN /\ seen' = [seen EXCEPT ![s] = chan[subs[s] - first + 1]]
                   /\ subs' = sb
                   /\ chan' = ch.chan
                   /\ first' = ch.first
        /\ UNCHANGED <<res, last, lock, apc, apend, applied>>
        /\ ConcFrame

NextConc ==
    \/ Lock
    \/ Mutate
    \/ SendUnlock
    \/ Subscribe
    \/ Recv

InitShared == InitSvm /\ InitConcStore /\ InitConc /\ InitWire

SpecConc == InitShared /\ [][NextConc]_vars

\* C3: every subscriber receives the events in the order in which their
\* mutations were applied to the store: each event it receives belongs to a
\* later mutation than the one before.
C3_EventsInMutationOrder ==
    [][\A s \in Subscribers : seen'[s] # seen[s] => seen'[s].seq > seen[s].seq]_vars

\* a subscriber that was slow enough to lose events has received a later
\* one, while an adapter is inside its next call
C3_Witness ==
    \E s \in Subscribers, a \in Adapters :
        /\ seen[s].seq > BROADCAST_CAP
        /\ apc[a] = "mutated" /\ apend[a] # <<>>

\* ========================================================================
\* Scene indices (aux data) and get_next_scene_id
\* ========================================================================
MAX_SCENE_ID == 100   \* Resources::MAX_SCENE_ID

MaxSceneOps == 2      \* add / aux_set / delete calls made on the initial store

MaxExtraScenes == 1   \* scenes beyond MAX_SCENE_ID the store can come to hold

\* AuxData: index -1 stands for None
AuxData(index) == [topic |-> "", index |-> index]

\* fn aux_set
aux_set(ax, link, a) == Put(ax, link.rid, a)

Room2Link == Link(2, "Room")

\* fn get_resources_by_type, as the ids of the records
get_resources_by_type(rs, ty) == {id \in DOMAIN rs : rtype(rs[id]) = ty}

\* the for loop of get_next_scene_id: the first x of x..MAX_SCENE_ID-1 not in set
RECURSIVE first_free(_, _)
first_free(x, set) ==
    IF x >= MAX_SCENE_ID THEN -1
    ELSE IF x \notin set THEN x
    ELSE first_free(x + 1, set)

\* (variant: the next index is taken to be the number of indices in use)
get_next_scene_id_count(rs, ax, room) ==
    LET r   == [NoLast EXCEPT !.op = "get_next_scene_id", !.link = room]
        set == {ax[id].index : id \in {i \in get_resources_by_type(rs, "Scene") :
                    /\ rs[i].group = room
                    /\ i \in DOMAIN ax
                    /\ ax[i].index # -1}}
    IN IF Cardinality(set) < MAX_SCENE_ID
       THEN Ok([r EXCEPT !.n = Cardinality(set)])
       ELSE [Err(r, "Full") EXCEPT !.actual = "Scene"]

\* fn get_next_scene_id
get_next_scene_id(rs, ax, room) ==
    LET r   == [NoLast EXCEPT !.op = "get_next_scene_id", !.link = room]
        set == {ax[id].index : id \in {i \in get_resources_by_type(rs, "Scene") :
                    /\ rs[i].group = room
                    /\ i \in DOMAIN ax
                    /\ ax[i].index # -1}}
        x   == first_free(0, set)
    IN IF x # -1 THEN Ok([r EXCEPT !.n = x])
       ELSE [Err(r, "Full") EXCEPT !.actual = "Scene"]

\* the stores the calls start from: n scenes of room 1 under ids 1..n, the
\* scene of id i with index i-1
SceneCounts == {0, 4, MAX_SCENE_ID - 1, MAX_SCENE_ID}

InitScene ==
    \E n \in SceneCounts :
        /\ res = [i \in 1..n |-> Scene(RoomLink, "Inactive")]
        /\ aux = [i \in 1..n |-> AuxData(i - 1)]
        /\ last = NoLast
        /\ snap = save(res, aux)

\* the ids, rooms and indices the calls are made with
SceneIds == {1, 3, MAX_SCENE_ID} \cup ((MAX_SCENE_ID + 1)..(MAX_SCENE_ID + MaxExtraScenes))

SceneRooms == {RoomLink, Room2Link}

SceneIndices == {-1, 0, 2, MAX_SCENE_ID - 1, MAX_SCENE_ID}

SceneAdd ==
    \E id \in SceneIds, room \in SceneRooms :
        LET c == add(res, Link(id, "Scene"), Scene(room, "Inactive"), "ok") IN
        /\ applied < MaxSceneOps
        /\ applied' = applied + 1
        /\ res' = c.res
        /\ last' = c.r
        /\ snap' = IF c.saved THEN save(c.res, aux) ELSE snap
        /\ UNCHANGED <<aux, svmVars, wireVars, lock, apc, apend, chan, first, subs, seen>>

SceneAuxSet ==
    \E id \in SceneIds, index \in SceneIndices :
        /\ applied < MaxSceneOps
        /\ applied' = applied + 1
        /\ aux' = aux_set(aux, Link(id, "Scene"), AuxData(index))
        /\ last' = [NoLast EXCEPT !.op = "aux_set", !.link = Link(id, "Scene"), !.n = index]
        /\ UNCHANGED <<res, snap, svmVars, wireVars, lock, apc, apend, chan, first, subs, seen>>

SceneDelete ==
    \E id \in SceneIds :
        LET c == delete(res, Link(id, "Scene")) IN
        /\ applied < MaxSceneOps
        /\ applied' = applied + 1
        /\ res' = c.res
        /\ last' = c.r
        /\ UNCHANGED <<aux, snap, svmVars, wireVars, lock, apc, apend, chan, first, subs, seen>>

GetNextSceneId ==
    \E room \in SceneRooms :
        /\ last' = get_next_scene_id(res, aux, room)
        /\ UNCHANGED <<res, aux, snap, svmVars, wireVars, concVars>>

NextScene ==
    \/ SceneAdd
    \/ SceneAuxSet
    \/ SceneDelete
    \/ GetNextSceneId

InitScenes == InitSvm /\ InitScene /\ InitConc /\ InitWire

SpecScene == InitScenes /\ [][NextScene]_vars

\* the scenes of a room, and the indices they hold
ScenesOf(room) == {id \in DOMAIN res : rtype(res[id]) = "Scene" /\ res[id].group = room}

IndicesOf(room) ==
    {aux[id].index : id \in {i \in ScenesOf(room) : i \in DOMAIN aux /\ aux[i].index # -1}}

FreeIndices(room) == (0..(MAX_SCENE_ID - 1)) \ IndicesOf(room)

\* C10 as stated: the result is the smallest index of [0, 100) that no scene
\* of the room holds, and the call fails with Full(Scene) when the room has
\* 100 scenes.
C10_FullWhenHundredScenes ==
    last.op = "get_next_scene_id" =>
        /\ last.ok => (last.n \in FreeIndices(last.link)
                        /\ \A x \in FreeIndices(last.link) : last.n <= x)
        /\ Cardinality(ScenesOf(last.link)) >= MAX_SCENE_ID =>
              (~last.ok /\ last.err = "Full" /\ last.actual = "Scene")

\* C10 (amended): the result is the smallest index of [0, 100) that no scene
\* of the room holds, and the call fails with Full(Scene) exactly when every
\* index of [0, 100) is held by a scene of the room.
C10_NextSceneId ==
    last.op = "get_next_scene_id" =>
        IF FreeIndices(last.link) = {}
        THEN ~last.ok /\ last.err = "Full" /\ last.actual = "Scene"
        ELSE /\ last.ok
             /\ last.n \in FreeIndices(last.link)
             /\ \A x \in FreeIndices(last.link) : last.n <= x

\* scenario 4: the room's scenes hold {0, 1, 3} and the call returns 2
C10_Witness ==
    /\ last.op = "get_next_scene_id" /\ last.ok
    /\ IndicesOf(last.link) = {0, 1, 3}
    /\ last.n = 2

\* C11: each room has at most 100 scenes, and no two scenes of one room
\* hold the same aux index.
C11_SceneInvariant ==
    \A room \in SceneRooms :
        /\ Cardinality(ScenesOf(room)) <= MAX_SCENE_ID
        /\ \A a, b \in ScenesOf(room) :
              (a # b /\ a \in DOMAIN aux /\ b \in DOMAIN aux /\ aux[a].index # -1)
                  => aux[a].index # aux[b].index

\* ========================================================================
\* The bridge's own resources: init / add_bridge
\* ========================================================================
MaxBridgeOps == 3     \* init, add, delete and update calls made on the new store

BridgeIds == {"b1", "b2"}

\* the seed of a deterministic uuid: a string or a uuid
SeedStr(str) == [str |-> str, id |-> 0]

SeedId(id) == [str |-> "", id |-> id]

SeedStrings == <<"b1", "b1HOME", "b2", "b2HOME">>

DetTypes == <<"Bridge", "BridgeHome", "Device", "GroupedLight">>

IndexOf(seq, x) == CHOOSE i \in 1..Len(seq) : seq[i] = x

SeedNum(seed) ==
    IF seed.str # "" THEN IndexOf(SeedStrings, seed.str) ELSE Len(SeedStrings) + seed.id

\* RType::deterministic: a link whose uuid is a hash of the type tag and the
\* seed: equal for equal arguments, different for different ones, and apart
\* from the random uuids (1..MaxIds)
deterministic(rt, seed) ==
    Link(MaxIds + IndexOf(DetTypes, rt) + Len(DetTypes) * SeedNum(seed), rt)

\* the adds of add_bridge in order, each followed by ?
RECURSIVE add_each(_, _, _)
add_each(st, adds, disks) ==
    IF adds = <<>> THEN st
    ELSE LET c   == add(st.res, Head(adds)[1], Head(adds)[2], Head(disks))
             st1 == [res |-> c.res,
                     saved |-> st.saved \/ c.saved,
                     sres |-> IF c.saved THEN c.res ELSE st.sres,
                     r |-> [st.r EXCEPT !.events = @ \o c.r.events,
                                        !.ok = c.r.ok, !.err = c.r.err]]
         IN IF ~c.r.ok THEN st1 ELSE add_each(st1, Tail(adds), Tail(disks))

\* (variant: the bridge's device gets a random uuid, the first one not in use)
add_bridge_random(rs, bridge_id, disks) ==
    LET link_bridge          == deterministic("Bridge", SeedStr(bridge_id))
        link_bridge_home     == deterministic("BridgeHome", SeedStr(bridge_id \o "HOME"))
        link_bridge_dev      == Link(Min((1..(MaxIds + 1)) \ DOMAIN rs), "Device")
        link_bridge_home_dev == deterministic("Device", SeedId(link_bridge_home.rid))
        bridge_dev      == [Device("bifrost") EXCEPT !.services = {link_bridge}]
        bridge          == Bridge(bridge_id, link_bridge_dev)
        bridge_home_dev == [Device("bifrost bridge home") EXCEPT !.services = {link_bridge}]
        bridge_home     == BridgeHome({link_bridge_dev},
                              {deterministic("GroupedLight", SeedId(link_bridge_home.rid))})
        adds == << <<link_bridge_dev, bridge_dev>>, <<link_bridge, bridge>>,
                   <<link_bridge_home_dev, bridge_home_dev>>,
                   <<link_bridge_home, bridge_home>> >>
    IN add_each([res |-> rs, saved |-> FALSE, sres |-> rs,
                 r |-> [NoLast EXCEPT !.op = "init", !.arg = bridge_id,
                                      !.n = Cardinality({k \in 1..4 :
                                                Pre(rs, adds[k][1].rid) = adds[k][2]})]],
                adds, disks)

\* fn add_bridge: the new map, the result with the events of the adds, and
\* the map of the last snapshot that replaced state.yaml
add_bridge(rs, bridge_id, disks) ==
    LET link_bridge          == deterministic("Bridge", SeedStr(bridge_id))
        link_bridge_home     == deterministic("BridgeHome", SeedStr(bridge_id \o "HOME"))
        link_bridge_dev      == deterministic("Device", SeedId(link_bridge.rid))
        link_bridge_home_dev == deterministic("Device", SeedId(link_bridge_home.rid))
        bridge_dev      == [Device("bifrost") EXCEPT !.services = {link_bridge}]
        bridge          == Bridge(bridge_id, link_bridge_dev)
        bridge_home_dev == [Device("bifrost bridge home") EXCEPT !.services = {link_bridge}]
        bridge_home     == BridgeHome({link_bridge_dev},
                              {deterministic("GroupedLight", SeedId(link_bridge_home.rid))})
        adds == << <<link_bridge_dev, bridge_dev>>, <<link_bridge, bridge>>,
                   <<link_bridge_home_dev, bridge_home_dev>>,
                   <<link_bridge_home, bridge_home>> >>
    IN add_each([res |-> rs, saved |-> FALSE, sres |-> rs,
                 r |-> [NoLast EXCEPT !.op = "init", !.arg = bridge_id,
                                      !.n = Cardinality({k \in 1..4 :
                                                Pre(rs, adds[k][1].rid) = adds[k][2]})]],
                adds, disks)

\* fn init
init(rs, bridge_id, disks) == add_bridge(rs, bridge_id, disks)

\* what each of the four snapshots of an init meets
InitDisks == [1..4 -> DiskOutcomes]

BridgeFrame == UNCHANGED <<aux, svmVars, wireVars, lock, apc, apend, chan, first, subs, seen>>

BridgeInit ==
    \E b \in BridgeIds, disks \in InitDisks :
        LET c == init(res, b, disks) IN
        /\ applied < MaxBridgeOps
        /\ applied' = applied + 1
        /\ res' = c.res
        /\ last' = c.r
        /\ snap' = IF c.saved THEN save(c.sres, aux) ELSE snap
        /\ BridgeFrame

\* the resources an adapter adds next to the bridge's own
BridgeAddArgs ==
    {<<RoomLink, Room("a")>>, <<Link(2, "Scene"), Scene(RoomLink, "Inactive")>>}

BridgeAdd ==
    \E a \in BridgeAddArgs, disk \in DiskOutcomes :
        LET c == add(res, a[1], a[2], disk) IN
        /\ applied < MaxBridgeOps
        /\ applied' = applied + 1
        /\ res' = c.res
        /\ last' = c.r
        /\ snap' = IF c.saved THEN save(c.res, aux) ELSE snap
        /\ BridgeFrame

BridgeDelete ==
    \E id \in DOMAIN res :
        LET c == delete(res, Link(id, rtype(res[id]))) IN
        /\ applied < MaxBridgeOps
        /\ applied' = applied + 1
        /\ res' = c.res
        /\ last' = c.r
        /\ UNCHANGED snap /\ BridgeFrame

BridgeUpdate ==
    \E id \in DOMAIN res, f \in {"room_rename", "scene_static", "device_rename"} :
        LET c == try_update(res, id, FuncT(f), f) IN
        /\ applied < MaxBridgeOps
        /\ applied' = applied + 1
        /\ res' = c.res
        /\ last' = c.r
        /\ UNCHANGED snap /\ BridgeFrame

NextBridge ==
    \/ BridgeInit
    \/ BridgeAdd
    \/ BridgeDelete
    \/ BridgeUpdate

SpecBridge == Init /\ [][NextBridge]_vars

\* the links add_bridge makes for a bridge id
BridgeLink(b) == deterministic("Bridge", SeedStr(b))

BridgeHomeLink(b) == deterministic("BridgeHome", SeedStr(b \o "HOME"))

BootstrapLinks(b) ==
    {BridgeLink(b), BridgeHomeLink(b),
     deterministic("Device", SeedId(BridgeLink(b).rid)),
     deterministic("Device", SeedId(BridgeHomeLink(b).rid)),
     deterministic("GroupedLight", SeedId(BridgeHomeLink(b).rid))}

\* the links stored inside a resource
LinksOf(obj) == ({obj.group, obj.owner} \ {NoLink}) \cup obj.children \cup obj.services

Resolves(rs, l) == l.rid \in DOMAIN rs /\ rtype(rs[l.rid]) = l.rtype

OfType(rs, t) == {id \in DOMAIN rs : rtype(rs[id]) = t}

\* C12: every link stored inside a resource of the store resolves to an
\* entry of res, or is one of the links init makes for the bridge.
C12_LinksResolve ==
    \A id \in DOMAIN res :
        \A l \in LinksOf(res[id]) :
            Resolves(res, l) \/ \E b \in BridgeIds : l \in BootstrapLinks(b)

NextSvm ==
    \/ ClientSend
    \/ NextControl
    \/ NextService
    \/ Timeout
    \/ SvcReport
    \/ SvcFinish

SpecSvm == Init /\ [][NextSvm]_vars

\* ------------------------------------------------------------------------
\* Properties of the service manager
\* ------------------------------------------------------------------------
InControl(c) == \E i \in 1..Len(control_rx) : control_rx[i].client = c

InFrames(c) == \E k \in 1..Len(frames) : frames[k].rpc = c

\* this step sends the reply of a Shutdown that was waiting for its services
ShutdownReplied ==
    \E c \in Clients : InFrames(c) /\ reply[c].st = "none" /\ reply'[c].st = "ok"

\* C1: when a Shutdown that had to wait completes, every service whose stored
\* state was Stopped at that moment is still registered and still Stopped;
\* only the services that had not reached Stopped are aborted and removed.
C1_OnlyUnstoppedRemoved ==
    [][ShutdownReplied =>
          \A id \in DOMAIN svcs :
              svcs[id].state = "Stopped" =>
                  id \in DOMAIN svcs' /\ svcs'[id].state = "Stopped"]_vars

\* C2: a Shutdown request the manager has taken and is no longer working on
\* has been answered, the shutdown flag is set, and run() has left its loop
\* unless an outer Shutdown is still in progress.
C2_ShutdownCompletes ==
    \A c \in Clients :
        (reply[c].kind = "Shutdown" /\ reply[c].st # "idle"
            /\ ~InControl(c) /\ ~InFrames(c))
        => /\ reply[c].st = "ok"
           /\ shutdown
           /\ frames = <<>> => mgr = "done"

\* the step is next_event taking a request of this kind, or a service event
ControlStep(kind) ==
    /\ control_rx # <<>>
    /\ control_rx' = Tail(control_rx)
    /\ Head(control_rx).kind = kind

ServiceStep == service_rx # <<>> /\ service_rx' = Tail(service_rx)

\* C16: Register with a taken name is answered ServiceAlreadyExists and
\* leaves svcs, names and tasks as they were; Register with a free name is
\* answered with a new id, under which one service is added in state
\* Registered with a task of its own.
C16_Register ==
    [][ControlStep("Register") =>
          LET c    == Head(control_rx).client
              name == Head(control_rx).arg.name
              id   == reply'[c].id
          IN IF name \in DOMAIN names
             THEN /\ reply'[c].st = "err" /\ reply'[c].err = "ServiceAlreadyExists"
                  /\ svcs' = svcs /\ names' = names /\ tasks' = tasks
             ELSE /\ reply'[c].st = "ok"
                  /\ id \notin DOMAIN svcs /\ id \notin DOMAIN tasks
                  /\ svcs' = Put(svcs, id, [tx |-> "Registered", name |-> name,
                                            state |-> "Registered"])
                  /\ names' = Put(names, name, id)
                  /\ tasks' = Put(tasks, id, "running")]_vars

C16_Witness ==
    /\ reply["admin"].kind = "Register"
    /\ reply["admin"].st = "err" /\ reply["admin"].err = "ServiceAlreadyExists"
    /\ Cardinality(DOMAIN tasks) = 1

\* C17: Status is answered with the stored state of the service; the stored
\* state is Registered from the registration on, becomes the state of each
\* event of the service that the manager handles, and changes in no other
\* step.
C17_StatusIsLastReported ==
    [][/\ ControlStep("Status") =>
             LET c  == Head(control_rx).client
                 id == resolve(Mgr, Head(control_rx).arg)
             IN IF id = 0
                THEN reply'[c].st = "err" /\ reply'[c].err = "ServiceNotFound"
                ELSE reply'[c].st = "ok" /\ reply'[c].state = svcs[id].state
       /\ (ServiceStep /\ AwaitingEvent /\ Head(service_rx).id \in DOMAIN svcs) =>
             svcs'[Head(service_rx).id].state = Head(service_rx).state
       /\ \A id \in DOMAIN svcs' \ DOMAIN svcs : svcs'[id].state = "Registered"
       /\ \A id \in DOMAIN svcs \cap DOMAIN svcs' :
             svcs'[id].state # svcs[id].state =>
                 ServiceStep /\ Head(service_rx).id = id]_vars

\* scenario: after Start(id) and the handled Running event, Status is Running
C17_Witness ==
    /\ reply["admin"].kind = "Status" /\ reply["admin"].st = "ok"
    /\ reply["admin"].state = "Running"
    /\ \E id \in DOMAIN svcs : svcs[id].tx = "Running" /\ svcs[id].state = "Running"

\* C18: a Start or Stop request changes no stored state (and no name, and
\* the set of services): at most the target on the state channel of the
\* service it names changes; a stored state changes only in the step that
\* handles an event of that service.
C18_StartStopOnlyRequest ==
    [][/\ (ControlStep("Start") \/ ControlStep("Stop")) =>
             LET id     == resolve(Mgr, Head(control_rx).arg)
                 target == IF Head(control_rx).kind = "Start" THEN "Running"
                           ELSE "Stopped"
             IN /\ DOMAIN svcs' = DOMAIN svcs
                /\ \A i \in DOMAIN svcs :
                      /\ svcs'[i].state = svcs[i].state
                      /\ svcs'[i].name = svcs[i].name
                      /\ svcs'[i].tx # svcs[i].tx => (i = id /\ svcs'[i].tx = target)
       /\ \A i \in DOMAIN svcs \cap DOMAIN svcs' :
             svcs'[i].state # svcs[i].state => ServiceStep]_vars

C18_Witness ==
    /\ reply["admin"].kind = "Start" /\ reply["admin"].st = "ok"
    /\ \E id \in DOMAIN svcs : svcs[id].tx = "Running" /\ svcs[id].state = "Registered"

\* C19: Stop of a service whose stored state is Stopped is answered with
\* success and sends nothing: svcs (the state channels with it) and the
\* tasks are as before.
C19_StopIdempotent ==
    [][ControlStep("Stop") =>
          LET c  == Head(control_rx).client
              id == resolve(Mgr, Head(control_rx).arg)
          IN (id # 0 /\ svcs[id].state = "Stopped") =>
                /\ reply'[c].st = "ok"
                /\ svcs' = svcs
                /\ tasks' = tasks]_vars

\* the only service ever registered was started, reported Stopped, and the
\* last request, a Stop, left its channel at Running
C19_Witness ==
    /\ reply["admin"].kind = "Stop" /\ reply["admin"].st = "ok"
    /\ Cardinality(DOMAIN tasks) = 1
    /\ \E id \in DOMAIN svcs : svcs[id].state = "Stopped" /\ svcs[id].tx = "Running"

\* ------------------------------------------------------------------------
\* wait_for_multiple called by the owner of the manager, which drives
\* next_event itself instead of run()
\* ------------------------------------------------------------------------
\* fn wait_for_multiple up to its first suspension or its return
wait_for_multiple(s, handles, target) ==
    LET ids == {resolve(s, h) : h \in handles}
        f   == [rpc |-> "", ids |-> ids, missing |-> ids, wait |-> "polling",
                call |-> "wait", target |-> target]
    IN IF 0 \in ids
       THEN [s EXCEPT !.frames = Append(@, [f EXCEPT !.wait = "ServiceNotFound"])]
       ELSE Resume([s EXCEPT !.frames = Append(@, f)])

\* the handles of the call: all the services the model registers
WaitHandles == {{ById(i) : i \in 1..MaxSvcs}}

\* the requests the clients make while the owner sets the services up
WaitRequests == {r \in Requests : r.kind \in {"Register", "Start"}}

WaitClientSend ==
    /\ mgr = "running"
    /\ \E req \in WaitRequests :
          /\ reply["admin"].st # "none"
          /\ req.kind = "Register" => RegisterBudget > 0
          /\ reply' = [reply EXCEPT !["admin"] = [NoReply EXCEPT !.kind = req.kind]]
          /\ control_rx' = Append(control_rx, [client |-> "admin", kind |-> req.kind,
                                               arg |-> req.arg])
    /\ UNCHANGED <<svcs, names, tasks, service_rx, shutdown, frames, mgr>> /\ SvmFrame

WaitCall ==
    /\ mgr = "running"
    /\ frames = <<>>
    /\ \E handles \in WaitHandles : Install(wait_for_multiple(Mgr, handles, "Running"))
    /\ UNCHANGED <<control_rx, service_rx>> /\ SvmFrame

NextWait ==
    \/ WaitClientSend
    \/ WaitCall
    \/ NextControl
    \/ NextService
    \/ SvcReport

SpecWait == Init /\ [][NextWait]_vars

\* the owner's call is suspended in its loop
Waiting == frames # <<>> /\ frames[1].call = "wait" /\ frames[1].wait = "polling"

\* C20: while wait_for_multiple(handles, Running) waits, the handled event
\* of one of its services that says Failed makes it return ServiceFailed,
\* and the one that says Running when every other service of the call has
\* been seen Running makes it return success; it returns success in no
\* other step.
C20_WaitForMultiple ==
    [][(Waiting /\ ServiceStep /\ Head(service_rx).id \in frames[1].ids) =>
          LET ev == Head(service_rx) IN
          /\ ev.state = "Failed" => frames'[1].wait = "ServiceFailed"
          /\ (ev.state = "Running" /\ frames[1].missing \subseteq {ev.id})
                => frames'[1].wait = "Ok"
          /\ frames'[1].wait = "Ok"
                => (ev.state = "Running" /\ frames[1].missing \subseteq {ev.id})]_vars

\* ------------------------------------------------------------------------
\* wait_for_state called by the owner of the manager, next to
\* wait_for_multiple on the one service
\* ------------------------------------------------------------------------
\* fn wait_for_state up to its first suspension or its return
wait_for_state(s, handle, expected) ==
    LET id == resolve(s, handle)
        f  == [rpc |-> "", ids |-> {id}, missing |-> {id}, wait |-> "polling",
               call |-> "wait_state", target |-> expected]
    IN IF id = 0
       THEN [s EXCEPT !.frames = Append(@, [f EXCEPT !.wait = "ServiceNotFound"])]
       ELSE Resume([s EXCEPT !.frames = Append(@, f)])

\* the handle of the call: a service the model registers
WaitStateHandles == {ById(i) : i \in 1..MaxSvcs}

\* the requests the client makes while the owner waits
WaitStateRequests == {r \in Requests : r.kind \in {"Register", "Start", "Stop", "Shutdown"}}

WaitStateClientSend ==
    /\ mgr = "running"
    /\ \E req \in WaitStateRequests :
          /\ reply["admin"].st # "none"
          /\ req.kind = "Register" => RegisterBudget > 0
          /\ reply' = [reply EXCEPT !["admin"] = [NoReply EXCEPT !.kind = req.kind]]
          /\ control_rx' = Append(control_rx, [client |-> "admin", kind |-> req.kind,
                                               arg |-> req.arg])
    /\ UNCHANGED <<svcs, names, tasks, service_rx, shutdown, frames, mgr>> /\ SvmFrame

WaitStateCall ==
    /\ mgr = "running"
    /\ frames = <<>>
    /\ \E handle \in WaitStateHandles, expected \in ServiceState :
          Install(wait_for_state(Mgr, handle, expected))
    /\ UNCHANGED <<control_rx, service_rx>> /\ SvmFrame

WaitOneCall ==
    /\ mgr = "running"
    /\ frames = <<>>
    /\ \E handle \in WaitStateHandles, target \in ServiceState :
          Install(wait_for_multiple(Mgr, {handle}, target))
    /\ UNCHANGED <<control_rx, service_rx>> /\ SvmFrame

NextWaitState ==
    \/ WaitStateClientSend
    \/ WaitStateCall
    \/ WaitOneCall
    \/ NextControl
    \/ NextService
    \/ Timeout
    \/ SvcReport

SpecWaitState == Init /\ [][NextWaitState]_vars

\* the owner's wait_for_state is suspended in its loop
WaitingState ==
    frames # <<>> /\ frames[1].call = "wait_state" /\ frames[1].wait = "polling"

\* what wait_for_state(id, expected) decides on a stored state
StateVerdict(state, expected) ==
    IF state = expected THEN "Ok"
    ELSE IF state = "Failed" THEN "ServiceFailed" ELSE "polling"

\* this step takes a message from one of the two channels
TakesMessage ==
    Len(control_rx') + Len(service_rx') < Len(control_rx) + Len(service_rx)

\* C21: wait_for_state(handle, expected) returns success without taking a
\* message when the stored state is expected at the call, ServiceFailed when
\* it is Failed, and otherwise every message taken while it waits is
\* followed by its poll: success as soon as the stored state is expected,
\* ServiceFailed as soon as it is Failed, one message per iteration.
C21_WaitForState ==
    [][/\ (frames = <<>> /\ frames' # <<>> /\ frames'[1].call = "wait_state"
              /\ 0 \notin frames'[1].ids)
          => /\ ~TakesMessage
             /\ frames'[1].wait =
                  StateVerdict(svcs[CHOOSE m \in frames'[1].ids : TRUE].state,
                               frames'[1].target)
       /\ (WaitingState /\ TakesMessage /\ mgr' = "running")
          => /\ Len(control_rx') + Len(service_rx')
                  = Len(control_rx) + Len(service_rx) - 1
             /\ frames'[1].wait =
                  StateVerdict(svcs'[CHOOSE m \in frames[1].ids : TRUE].state,
                               frames[1].target)]_vars

\* C22: wait_for_multiple([s], t) and wait_for_state(s, t) decide alike in
\* every manager state, at the call and at every pass of their loops, for
\* every service s and every target state t.
C22_SingleServiceSame ==
    \A i \in 1..MaxSvcs, t \in ServiceState :
       /\ WaitStatePoll(Mgr, i, t) = WaitPoll(Mgr, {i}, t).res
       /\ frames = <<>> =>
             Top(wait_for_state(Mgr, ById(i), t)).wait
                = Top(wait_for_multiple(Mgr, {ById(i)}, t)).wait

\* C23: every message is taken by a next_event call that run makes, and the
\* handler of that message returns to run without another message being
\* taken, whatever the request is.
C23_OneMessagePerTick ==
    [][TakesMessage =>
          /\ Len(control_rx') + Len(service_rx')
               = Len(control_rx) + Len(service_rx) - 1
          /\ frames = <<>>
          /\ frames' = <<>>]_vars

\* C24: no request taken from the control channel loses its reply channel
\* unanswered, the requests taken while a Shutdown waits included.
C24_NoRpcLost ==
    \A c \in Clients : reply[c].st # "dropped"

\* ========================================================================
\* The codec at work: an update is serialized and read back, or bytes
\* arrive from the network and are read
\* ========================================================================
MaxPoints == 2      \* points of a gradient
MaxPayload == 5     \* bytes after the flag word of a message from the network

\* coordinates: on the 16-bit grid, and 0.5, which lies between two of its points
Coords16 == {XY(XYUnit \div 2, XYUnit \div 2), XY(from_u16(4660), XYUnit), XY(0, from_u16(1))}

\* points: on the 12-bit grid, and 0.5
Coords12 == {XY(from_u12(291), from_u12(4095)), XY(XYUnit \div 2, 0)}

\* the header says how many points there are
Gradients ==
    {GradientColors(GradientUpdateHeader(Len(ps), 3 * Len(ps), 4, 1286), ps) :
        ps \in UNION {[1..n -> Coords12] : n \in 0..MaxPoints}}

Opt(S) == {None} \cup {Some(v) : v \in S}

\* the well-formed updates of the model: every subset of the nine fields
Updates ==
    [onoff : Opt({0, 1}), brightness : Opt({128, 255}), color_mirek : Opt({258, 65535}),
     color_xy : Opt(Coords16), unk0 : Opt({43981}),
     gradient_colors : Opt(Gradients), gradient_params : Opt({GradientParams(1, 2)}),
     effect_type : Opt({"Candle", "Enchant"}), effect_speed : Opt({7})]

\* the flag words of the messages from the network
NetWords ==
    {k + r : k \in {0, ON_OFF, EFFECT_TYPE, ON_OFF + EFFECT_TYPE, EFFECT_SPEED,
                    GRADIENT_COLORS},
             r \in {0, 512, 32768, 512 + 1024, 65024}}

\* their bytes: 4 is the byte of no effect type
NetBytes == {0, 4, 17}

NetPayloads == UNION {[1..n -> NetBytes] : n \in 0..MaxPayload}

NetMessages == {LE16(w) \o p : w \in NetWords, p \in NetPayloads}

CodecFrame ==
    UNCHANGED <<svmVars, storeVars, concVars, diskVars, stream, msg, sess, pureVars>>

InitCodec ==
    /\ InitSvm /\ InitStore /\ InitConc
    /\ hz \in Updates
    /\ wire = NoWire
    /\ back = NoBack
    /\ stream = new(U32(0, 0))
    /\ msg = NoMsg
    /\ sess = Session(U32(0, 0))
    /\ InitPure

Serialize ==
    /\ wire.from = "none"
    /\ wire' = [from |-> "serialize", bytes |-> serialize(hz)]
    /\ UNCHANGED <<hz, back>> /\ CodecFrame

Receive ==
    /\ wire.from = "none"
    /\ hz = HueZigbeeUpdate
    /\ \E m \in NetMessages : wire' = [from |-> "network", bytes |-> m]
    /\ UNCHANGED <<hz, back>> /\ CodecFrame

FromReader ==
    /\ wire.from # "none"
    /\ back.res = "none"
    /\ \E build \in Builds : back' = from_reader(wire.bytes, build)
    /\ UNCHANGED <<hz, wire>> /\ CodecFrame

NextCodec ==
    \/ Serialize
    \/ Receive
    \/ FromReader

SpecCodec == InitCodec /\ [][NextCodec]_vars

\* the bytes of an update have been read back
ReadBack == wire.from = "serialize" /\ back.res # "none"

\* a coordinate the wire carries exactly
OnGrid16(c) == c.x % Step16 = 0 /\ c.y % Step16 = 0

OnGrid12(c) == c.x % Step12 = 0 /\ c.y % Step12 = 0

OnGrid(x) ==
    /\ IsSome(x.color_xy) => OnGrid16(x.color_xy[1])
    /\ IsSome(x.gradient_colors) =>
          \A i \in 1..Len(x.gradient_colors[1].points) :
             OnGrid12(x.gradient_colors[1].points[i])

\* C25 as stated: decoding the bytes of any well-formed update gives the
\* update back.
C25_RoundTrip ==
    ReadBack => (back.res = "Ok" /\ back.hz = hz)

\* C25: decoding the bytes of a well-formed update whose coordinates are
\* values the wire carries (multiples of 1/0xFFFF in color_xy, of 1/0xFFF in
\* the gradient points) gives the update back.
C25_RoundTripOnGrid ==
    (ReadBack /\ OnGrid(hz)) => (back.res = "Ok" /\ back.hz = hz)

C25_Witness ==
    /\ ReadBack
    /\ OnGrid(hz)
    /\ IsSome(hz.color_xy) /\ IsSome(hz.gradient_colors) /\ IsSome(hz.effect_type)
    /\ Len(hz.gradient_colors[1].points) = MaxPoints
    /\ back.hz = hz

\* bytes from the network have been read
ReadNet == wire.from = "network" /\ back.res # "none"

\* the reserved bits of a flag word
Reserved(w) == w - (w % 512)

\* the offset of the effect byte in a message with this flag word
EffectAt(w) ==
    2 + (IF contains(w, ON_OFF) THEN 1 ELSE 0) + (IF contains(w, BRIGHTNESS) THEN 1 ELSE 0)
      + (IF contains(w, COLOR_MIREK) THEN 2 ELSE 0) + (IF contains(w, COLOR_XY) THEN 4 ELSE 0)
      + (IF contains(w, UNKNOWN_0) THEN 2 ELSE 0)

\* the message has an effect byte and no effect type has it
BadEffect(bytes) ==
    LET w == read_LE16(bytes) IN
    /\ contains(w, EFFECT_TYPE)
    /\ Len(bytes) > EffectAt(w)
    /\ \A e \in EffectType : EffectByte[e] # bytes[EffectAt(w) + 1]

FlagsOf(layout) == [i \in 1..Len(layout) |-> layout[i].flag]

\* C27: for every subset of the nine flags, the present fields lie after
\* the flag word in the order ON_OFF, BRIGHTNESS, COLOR_MIREK, COLOR_XY,
\* UNKNOWN_0, EFFECT_TYPE, GRADIENT_COLORS, EFFECT_SPEED, GRADIENT_PARAMS,
\* and from_reader reads each field from the bytes written for it.
C27_SameOrder ==
    ReadBack =>
       LET order == <<ON_OFF, BRIGHTNESS, COLOR_MIREK, COLOR_XY, UNKNOWN_0, EFFECT_TYPE,
                      GRADIENT_COLORS, EFFECT_SPEED, GRADIENT_PARAMS>>
           present(f) == contains(read_LE16(wire.bytes), f)
       IN /\ FlagsOf(WriteLayout(hz)) = SelectSeq(order, present)
          /\ back.layout = WriteLayout(hz)

C27_Witness ==
    /\ ReadBack
    /\ read_LE16(wire.bytes) = 511
    /\ Len(back.layout) = 9
    /\ back.layout = WriteLayout(hz)

\* flag a comes before flag b in a layout
Before(layout, a, b) ==
    \E i, j \in 1..Len(layout) : i < j /\ layout[i].flag = a /\ layout[j].flag = b

\* both the gradient colors and the effect speed are there
BothThere == IsSome(hz.gradient_colors) /\ IsSome(hz.effect_speed)

\* C28 as stated: the read path takes GRADIENT_COLORS before EFFECT_SPEED
\* and the write path puts EFFECT_SPEED before GRADIENT_COLORS.
C28_Asymmetric ==
    (ReadBack /\ BothThere) =>
       /\ Before(back.layout, GRADIENT_COLORS, EFFECT_SPEED)
       /\ Before(WriteLayout(hz), EFFECT_SPEED, GRADIENT_COLORS)

\* C28: the wire order is the same on the two paths: the read path takes
\* GRADIENT_COLORS before EFFECT_SPEED and the write path puts
\* GRADIENT_COLORS before EFFECT_SPEED.
C28_Symmetric ==
    (ReadBack /\ BothThere) =>
       /\ Before(back.layout, GRADIENT_COLORS, EFFECT_SPEED)
       /\ Before(WriteLayout(hz), GRADIENT_COLORS, EFFECT_SPEED)
       /\ ~Before(WriteLayout(hz), EFFECT_SPEED, GRADIENT_COLORS)

C28_Witness ==
    /\ ReadBack /\ BothThere
    /\ Len(hz.gradient_colors[1].points) > 0
    /\ back.res = "Ok"
    /\ Before(WriteLayout(hz), GRADIENT_COLORS, EFFECT_SPEED)

\* ========================================================================
\* A session of the entertainment stream: frame, reset and segment_mapping
\* calls in any order
\* ========================================================================
MaxStreamOps == 4   \* calls of a session

\* the counters a session starts at: zero, before a carry into the high
\* half, just under the maximum, and the maximum
StartCounters == {U32(0, 0), U32(0, 65535), U32(65535, 65533), U32_MAX}

\* the light records of a frame
Blocks == {<<>>, <<HueEntFrameLightRecord(1, 255, <<35, 241, 255>>)>>}

\* the segment ids of a mapping
SegmentMaps == {<<>>, <<1, 2>>}

StreamFrame ==
    UNCHANGED <<svmVars, storeVars, concVars, diskVars, hz, wire, back, pureVars>>

InitStream ==
    /\ InitSvm /\ InitStore /\ InitConc
    /\ hz = HueZigbeeUpdate
    /\ wire = NoWire
    /\ back = NoBack
    /\ \E n \in StartCounters :
          /\ stream = new(n)
          /\ sess = Session(n)
    /\ msg = NoMsg
    /\ InitPure

\* a call of the stream is made and c is what it leaves
Called(c, isframe) ==
    /\ stream' = c.stream
    /\ msg' = c.msg
    /\ sess' = [sess EXCEPT !.ncalls = @ + 1,
                            !.nframes = IF isframe THEN @ + 1 ELSE @,
                            !.prev = IF isframe /\ ~c.panicked
                                     THEN Some(read_LE32(c.msg.data)) ELSE @,
                            !.panicked = c.panicked]

InSession == sess.ncalls < MaxStreamOps /\ ~sess.panicked

Frame ==
    /\ InSession
    /\ \E blks \in Blocks, build \in Builds : Called(frame(stream, blks, build), TRUE)
    /\ StreamFrame

Reset ==
    /\ InSession
    /\ Called(reset(stream), FALSE)
    /\ StreamFrame

SegmentMapping ==
    /\ InSession
    /\ \E map \in SegmentMaps : Called(segment_mapping(stream, map), FALSE)
    /\ StreamFrame

NextStream ==
    \/ Frame
    \/ Reset
    \/ SegmentMapping

SpecStream == InitStream /\ [][NextStream]_vars

\* this step is a frame call, a reset call, a segment_mapping call
FrameStep == sess'.nframes = sess.nframes + 1

ResetStep == sess'.ncalls = sess.ncalls + 1 /\ msg'.command = CMD_RESET

SegmentStep == sess'.ncalls = sess.ncalls + 1 /\ msg'.command = CMD_SEGMENT_MAP

\* C29: in a session started at counter N, whatever the order of the calls,
\* the k-th frame call returns a frame that carries N+k-1 and leaves the
\* counter at N+k, a reset carries the current counter, and reset and
\* segment_mapping leave the counter as it is.
C29_CounterOfFrames ==
    [][/\ FrameStep =>
             /\ msg'.command = CMD_FRAME
             /\ read_LE32(msg'.data) = Plus(sess.start, sess'.nframes - 1)
             /\ stream'.counter = Plus(sess.start, sess'.nframes)
       /\ ResetStep =>
             /\ SubSeq(msg'.data, 1, 2) = <<0, 1>>
             /\ read_LE32(SubSeq(msg'.data, 3, 6)) = stream.counter
             /\ stream'.counter = stream.counter
       /\ SegmentStep => stream'.counter = stream.counter]_vars

\* C30: whatever counter the session started at, the maximum included, a
\* frame call returns, leaves the counter one higher, and its frame carries
\* a counter greater than that of the frame before.
C30_CounterMonotonic ==
    [][FrameStep =>
          /\ ~sess'.panicked
          /\ stream'.counter = Plus(stream.counter, 1)
          /\ IsSome(sess.prev) => Less(sess.prev[1], read_LE32(msg'.data))]_vars

\* ========================================================================
\* The parsers of zcl::hue at work: bytes arrive and one of the parsers
\* reads them
\* ========================================================================
MaxStartLen == 6    \* bytes of a message handed to HueEntStart::parse
MaxLights == 2      \* light records of a message handed to HueEntFrame::parse

ZclBytes == {0, 1, 2}

StartInputs == UNION {[1..n -> ZclBytes] : n \in 0..MaxStartLen}

FrameHeaders == {LE32(U32(0, 1)) \o <<0, 0>>, LE32(U32(1, 0)) \o <<1, 2>>}

FrameLights == {<<1, 0, 2, 0, 3, 4, 5>>, <<0, 1, 0, 2, 9, 8, 7>>}

\* a header and up to MaxLights records, and every prefix of them
FrameInputs ==
    {SubSeq(h \o Concat(ls), 1, k) :
        h \in FrameHeaders, ls \in [1..MaxLights -> FrameLights], k \in 0..(6 + 7 * MaxLights)}

ZclInputs == StartInputs \cup FrameInputs

ZclFrame ==
    UNCHANGED <<svmVars, storeVars, concVars, diskVars, hz, wire, back, stream, msg, sess,
                meta, runner>>

InitZcl ==
    /\ InitSvm /\ InitStore /\ InitConc /\ InitHz
    /\ \E d \in ZclInputs : zcl = [NoZcl EXCEPT !.data = d]
    /\ meta = NoMeta
    /\ runner = NoRunner

ParseStart ==
    /\ zcl.call = "none"
    /\ zcl' = [zcl EXCEPT !.call = "start", !.out = HueEntStart_parse(zcl.data)]
    /\ ZclFrame

ParseFrame ==
    /\ zcl.call = "none"
    /\ zcl' = [zcl EXCEPT !.call = "frame", !.out = HueEntFrame_parse(zcl.data)]
    /\ ZclFrame

NextZcl ==
    \/ ParseStart
    \/ ParseFrame

SpecZcl == InitZcl /\ [][NextZcl]_vars

\* C31: HueEntStart::parse succeeds exactly when the input has at least two
\* bytes and the bytes after them are twice as many as the big-endian count
\* in them; then members has count entries, each read little-endian in the
\* order of the input; every other input fails with InvalidValue.
C31_StartParse ==
    zcl.call = "start" =>
        LET d     == zcl.data
            count == 256 * d[1] + d[2]
            fits  == Len(d) >= 2 /\ Len(d) - 2 = 2 * count
        IN /\ zcl.out.res = "ok" <=> fits
           /\ fits =>
                 /\ zcl.out.count = count
                 /\ Len(zcl.out.members) = count
                 /\ \A i \in 1..count :
                       zcl.out.members[i] = d[2 * i + 1] + 256 * d[2 * i + 2]
           /\ ~fits => zcl.out.res = "InvalidValue"

\* a message of two members, which differ, has been parsed
C31_Witness ==
    /\ zcl.call = "start" /\ zcl.out.res = "ok"
    /\ zcl.out.count = 2
    /\ zcl.out.members[1] = 1 /\ zcl.out.members[2] = 512

\* C32: HueEntFrame::parse accepts every input made of the 6-byte header
\* and zero or more whole 7-byte light records, returning one record for
\* each seven bytes in the order of the input; for an input of any other
\* length it returns an error, and it never panics.
C32_FrameParse ==
    zcl.call = "frame" =>
        LET d     == zcl.data
            whole == Len(d) >= 6 /\ (Len(d) - 6) % 7 = 0
            n     == (Len(d) - 6) \div 7
        IN /\ zcl.out.res # "panic"
           /\ whole =>
                 /\ zcl.out.res = "ok"
                 /\ Len(zcl.out.blks) = n
                 /\ \A i \in 1..n :
                       zcl.out.blks[i]
                         = HueEntFrameLight_unpack(SubSeq(d, 7 * i, 7 * i + 6))
           /\ ~whole => zcl.out.res = "InvalidValue"

\* ========================================================================
\* Scene metadata: the difference of two values and its sum with the first
\* ========================================================================
\* struct SceneMetadata
SceneMetadata(appdata, image, name) ==
    [appdata |-> appdata, image |-> image, name |-> name]

\* SceneMetadataUpdate::default()
SceneMetadataUpdate == [appdata |-> None, image |-> None, name |-> None]

\* impl Sub<&SceneMetadata> for &SceneMetadata
sub(self, rhs) ==
    IF self = rhs THEN SceneMetadataUpdate
    ELSE [appdata |-> IF self.appdata # rhs.appdata THEN rhs.appdata ELSE None,
          image   |-> IF self.image # rhs.image THEN rhs.image ELSE None,
          name    |-> IF self.name # rhs.name THEN Some(rhs.name) ELSE None]

\* impl AddAssign<SceneMetadataUpdate> for SceneMetadata
add_assign(self, upd) ==
    [appdata |-> IF IsSome(upd.appdata) THEN Some(upd.appdata[1]) ELSE self.appdata,
     image   |-> IF IsSome(upd.image) THEN Some(upd.image[1]) ELSE self.image,
     name    |-> IF IsSome(upd.name) THEN upd.name[1] ELSE self.name]

Appdatas == {None, Some("x"), Some("y")}

Images == {None, Some(Link(1, "PublicImage")), Some(Link(2, "PublicImage"))}

MetaNames == {"n", "m"}

Metadatas ==
    {SceneMetadata(ap, im, nm) : ap \in Appdatas, im \in Images, nm \in MetaNames}

MetaFrame ==
    UNCHANGED <<svmVars, storeVars, concVars, diskVars, hz, wire, back, stream, msg, sess,
                zcl, runner>>

InitMeta ==
    /\ InitSvm /\ InitStore /\ InitConc /\ InitHz
    /\ zcl = NoZcl
    /\ runner = NoRunner
    /\ \E a \in Metadatas, b \in Metadatas : meta = [NoMeta EXCEPT !.a = a, !.b = b]

\* upd = &a - &b
Sub ==
    /\ meta.upd = None
    /\ meta' = [meta EXCEPT !.upd = Some(sub(meta.a, meta.b))]
    /\ MetaFrame

\* a += upd
AddAssign ==
    /\ IsSome(meta.upd)
    /\ meta.sum = None
    /\ meta' = [meta EXCEPT !.sum = Some(add_assign(meta.a, meta.upd[1]))]
    /\ MetaFrame

NextMeta ==
    \/ Sub
    \/ AddAssign

SpecMeta == InitMeta /\ [][NextMeta]_vars

\* C33: a - b has appdata, image and name each present, with the value of
\* b, exactly when that field of b differs from that of a, and empty
\* otherwise; a - a is the empty update.
C33_SubIsDifference ==
    IsSome(meta.upd) =>
        LET a == meta.a
            b == meta.b
            u == meta.upd[1]
        IN /\ IsSome(u.appdata) <=> a.appdata # b.appdata
           /\ IsSome(u.image) <=> a.image # b.image
           /\ IsSome(u.name) <=> a.name # b.name
           /\ a.appdata # b.appdata => u.appdata = b.appdata
           /\ a.image # b.image => u.image = b.image
           /\ a.name # b.name => u.name = Some(b.name)
           /\ a = b => u = SceneMetadataUpdate

\* C34: subtract and add-assign round-trip: a, with a - b added to it, is b,
\* for b without the appdata or the image that a has as well.
C34_RoundTrip ==
    IsSome(meta.sum) => meta.sum[1] = meta.b

\* ========================================================================
\* A service under a retry policy: its inner service fails again and again
\* ========================================================================
MaxLimit == 4       \* the k of Retry::Limit(k)
MaxRetries == 6     \* restarts in one behaviour (under Retry::Forever)

Retries ==
    {Retry("No", 0), Retry("Forever", 0)} \cup {Retry("Limit", k) : k \in 0..MaxLimit}

Delays == {None, Some(1), Some(2)}

Policies == {Policy(r, d) : r \in Retries, d \in Delays}

RunnerFrame ==
    UNCHANGED <<svmVars, storeVars, concVars, diskVars, hz, wire, back, stream, msg, sess,
                zcl, meta>>

InitRunner ==
    /\ InitSvm /\ InitStore /\ InitConc /\ InitHz
    /\ zcl = NoZcl
    /\ meta = NoMeta
    /\ \E p \in Policies : runner = [NoRunner EXCEPT !.policy = p]

\* the runner is started and starts its inner service
RunnerStart ==
    /\ runner.state = "Registered"
    /\ runner' = [runner EXCEPT !.state = "Running"]
    /\ RunnerFrame

\* the inner service returns an error
InnerFails ==
    /\ runner.state = "Running"
    /\ runner.retries < MaxRetries
    /\ runner' = runner_on_failure(runner)
    /\ RunnerFrame

\* policy.sleep() returns and the inner service is started again
SleepDone ==
    /\ runner.state = "Sleeping"
    /\ runner' = [runner EXCEPT !.state = "Running"]
    /\ RunnerFrame

\* the inner service returns Ok
InnerEnds ==
    /\ runner.state = "Running"
    /\ runner' = [runner EXCEPT !.state = "Stopped"]
    /\ RunnerFrame

NextRunner ==
    \/ RunnerStart
    \/ InnerFails
    \/ SleepDone
    \/ InnerEnds

SpecRunner == InitRunner /\ [][NextRunner]_vars

\* C36: should_retry(n) is false for every n under Retry::No, true for
\* every n under Retry::Forever, and true exactly when n < k under
\* Retry::Limit(k); a runner that restarts its inner service only while
\* should_retry(retries so far) holds restarts it at most k times under
\* Limit(k), then goes to Failed, and has terminated there.
C36_RetryLimit ==
    [][LET p == runner.policy
           k == p.retry.limit
       IN /\ \A n \in 0..(MaxRetries + 1) :
                should_retry(p, n)
                  <=> \/ p.retry.kind = "Forever"
                      \/ p.retry.kind = "Limit" /\ n < k
          /\ p.retry.kind = "No" => runner'.retries = 0
          /\ p.retry.kind = "Limit" => runner'.retries <= k
          /\ (runner.state = "Running" /\ runner'.state = "Failed") =>
                \/ p.retry.kind = "No"
                \/ p.retry.kind = "Limit" /\ runner.retries = k
          /\ (p.retry.kind = "Limit" /\ runner.retries = k /\ runner.state = "Running") =>
                runner'.state \in {"Failed", "Stopped"}
          /\ runner.state = "Failed" => runner' = runner]_vars

\* under Limit(2) the inner service was restarted twice, failed a third
\* time, and the runner is Failed
C36_Witness ==
    /\ runner.policy.retry = Retry("Limit", 2)
    /\ runner.retries = 2
    /\ runner.state = "Failed"

\* ========================================================================
\* The update event of a scene (under Spec)
\* ========================================================================
\* C35: a successful update of a Scene sends one Update event whose recall
\* action comes from the status.active the scene has after the closure:
\* DynamicPalette gives DynamicPalette, Static gives Active, Inactive and a
\* scene without status give no action.
C35_RecallFromStatus ==
    (last.op = "update" /\ last.ok /\ last.T = "Scene") =>
        LET active == res[last.link.rid].status IN
        /\ Len(last.events) = 1
        /\ last.events[1].kind = "Update"
        /\ last.events[1].id = last.link.rid
        /\ last.events[1].upd.t = "Scene"
        /\ active = "DynamicPalette" => last.events[1].upd.recall = "DynamicPalette"
        /\ active = "Static" => last.events[1].upd.recall = "Active"
        /\ active \in {"Inactive", "None"} => last.events[1].upd.recall = "None"

\* a scene in DynamicPalette was updated by a closure that left its status
\* alone, next to a scene that is Static
C35_Witness ==
    /\ last.op = "update" /\ last.ok /\ last.T = "Scene"
    /\ last.func = "scene_touch"
    /\ res[last.link.rid].status = "DynamicPalette"
    /\ \E id \in DOMAIN res : res[id].rtype = "Scene" /\ res[id].status = "Static"

\* ========================================================================
\* add, update and delete on a store whose channel has a subscriber or none
\* ========================================================================
MaxDropOps == 3     \* add, delete and update calls in one behaviour

NoSubscriber == \A s \in Subscribers : subs[s] = 0

\* (variant: the error of send is returned to the caller)
after_send_checked(r, sent) ==
    IF r.events = <<>> \/ sent THEN r ELSE Err(r, "SendError")

\* let _ = self.chan.send(..): the result of send is thrown away and the
\* call returns what it had to return before
after_send(r, sent) == r

\* the events of a call, numbered by the call
Numbered(evs, n) == [i \in 1..Len(evs) |-> [seq |-> n, ev |-> evs[i]]]

\* self.chan.send(..) and the return of the call
SendAndReturn(c) ==
    LET ch == chan_send([chan |-> chan, first |-> first], Numbered(c.r.events, applied + 1))
    IN /\ chan' = ch.chan
       /\ first' = ch.first
       /\ last' = after_send(c.r, ~NoSubscriber)
       /\ res' = c.res
       /\ applied' = applied + 1

DropAdd ==
    \E a \in AddArgs, disk \in DiskOutcomes :
        LET c == add(res, a[1], a[2], disk) IN
        /\ applied < MaxDropOps
        /\ SendAndReturn(c)
        /\ snap' = IF c.saved THEN save(c.res, aux) ELSE snap
        /\ UNCHANGED <<aux, lock, apc, apend, subs, seen, svmVars, wireVars>>

DropDelete ==
    \E link \in Links :
        /\ applied < MaxDropOps
        /\ SendAndReturn(delete(res, link))
        /\ UNCHANGED <<aux, snap, lock, apc, apend, subs, seen, svmVars, wireVars>>

DropUpdate ==
    \E id \in Ids, f \in Funcs :
        /\ applied < MaxDropOps
        /\ SendAndReturn(try_update(res, id, FuncT(f), f))
        /\ UNCHANGED <<aux, snap, lock, apc, apend, subs, seen, svmVars, wireVars>>

NextDrop ==
    \/ DropAdd
    \/ DropDelete
    \/ DropUpdate
    \/ Subscribe
    \/ Recv

SpecDrop == InitShared /\ [][NextDrop]_vars

\* this step is a call of add, delete or update
DropStep == applied' = applied + 1

\* what the call recorded in r does to the store rs when its event is sent
SameAsSent(rs, r) ==
    CASE r.op = "add" ->
            \E disk \in DiskOutcomes :
                LET c == add(rs, r.link, r.obj, disk) IN
                /\ res' = c.res /\ r = c.r
                /\ snap' = IF c.saved THEN save(c.res, aux) ELSE snap
      [] r.op = "delete" ->
            LET c == delete(rs, r.link) IN res' = c.res /\ r = c.r /\ snap' = snap
      [] r.op = "update" ->
            LET c == try_update(rs, r.link.rid, r.T, r.func) IN
            res' = c.res /\ r = c.r /\ snap' = snap
      [] OTHER -> FALSE

\* C37: with no subscriber on the channel, add, update and delete return
\* what they return, and do to the store what they do, when their event is
\* sent: the failed send is ignored, the channel keeps nothing of the
\* event, and a subscriber that subscribes later starts at an empty channel.
C37_NoSubscriberSameEffect ==
    [][/\ (DropStep /\ NoSubscriber) =>
             /\ SameAsSent(res, last')
             /\ chan' = <<>>
       /\ (NoSubscriber /\ ~NoSubscriber') =>
             /\ chan' = <<>>
             /\ \A s \in Subscribers :
                   seen'[s] = NoSeen /\ subs'[s] \in {0, first' + Len(chan')}]_vars

\* three calls were made while nobody had subscribed, the last of them
\* succeeded with an event; the subscriber that came then has nothing to
\* receive
C37_Witness ==
    /\ applied = MaxDropOps
    /\ last.ok /\ last.events # <<>>
    /\ \A s \in Subscribers : subs[s] # 0 /\ seen[s] = NoSeen
    /\ chan = <<>>

\* ========================================================================
\* The service manager: Shutdown replies, events of removed services, and
\* the two maps of the registry (under SpecSvm)
\* ========================================================================
\* this step sends the success reply of a Shutdown request
ShutdownReplySent ==
    \E c \in Clients :
        /\ reply[c].kind = "Shutdown" /\ reply[c].st = "none"
        /\ reply'[c].st = "ok"

\* C38: when the manager sends the Shutdown reply, every service in its
\* registry has stored state Stopped, the services registered or started
\* while the Shutdown was waiting included.
C38_AllStoppedAtReply ==
    [][ShutdownReplySent =>
          \A id \in DOMAIN svcs' : svcs'[id].state = "Stopped"]_vars

\* ------------------------------------------------------------------------
\* The owner of the manager drives next_event itself and calls abort
\* between two events, while clients send requests
\* ------------------------------------------------------------------------
AbortCall ==
    /\ mgr = "running"
    /\ frames = <<>>
    /\ \E handle \in WaitStateHandles : Install(abort(Mgr, handle))
    /\ UNCHANGED <<control_rx, service_rx>> /\ SvmFrame

NextOwner ==
    \/ WaitStateClientSend
    \/ AbortCall
    \/ NextControl
    \/ NextService
    \/ Timeout
    \/ SvcReport

SpecOwner == Init /\ [][NextOwner]_vars

\* this step takes an event from the service-event channel and handles it
EventTaken == AwaitingEvent /\ ServiceStep

\* C39: handling a service event never crashes the manager: for every event
\* taken from the service-event channel, the events of services that were
\* aborted and removed included, handle_service_event does not panic and
\* leaves the states of the other services as they were.
C39_EventNeverCrashes ==
    [][EventTaken =>
          /\ mgr' # "panicked"
          /\ \A id \in (DOMAIN svcs \cap DOMAIN svcs') \ {Head(service_rx).id} :
                svcs'[id].state = svcs[id].state]_vars

\* the pairs List returns
ListPairs == {<<names[n], n>> : n \in DOMAIN names}

\* C40: names and svcs describe the same services: names maps distinct
\* names to distinct ids, the ids in names are the keys of svcs, and
\* svcs[names[n]].name = n for every registered name n, so that List has
\* one (id, name) pair per registered service.
C40_NamesMatchSvcs ==
    /\ \A n1, n2 \in DOMAIN names : names[n1] = names[n2] => n1 = n2
    /\ {names[n] : n \in DOMAIN names} = DOMAIN svcs
    /\ \A n \in DOMAIN names : svcs[names[n]].name = n
    /\ Cardinality(ListPairs) = Cardinality(DOMAIN svcs)
    /\ \A id \in DOMAIN svcs : <<id, svcs[id].name>> \in ListPairs

\* a Shutdown has aborted and removed one service and kept the other, and
\* a name was registered before that
C40_Witness ==
    /\ \E id \in DOMAIN tasks : tasks[id] = "aborted" /\ id \notin DOMAIN svcs
    /\ Cardinality(DOMAIN svcs) = 1
    /\ Cardinality(DOMAIN names) = 1
    /\ shutdown
====
